---- MODULE Spec2Model ----
(***************************************************************************)
(* CV generation function (src/src/main.js): the request handler          *)
(* (module.exports) and the cursor-driven PDF layout (generatePDF).       *)
(*                                                                         *)
(* A JavaScript string is abstracted to a record                          *)
(*   [name, pad, lines, up]                                                *)
(* name  : the visible text (the name "undefined" is the value undefined), *)
(* pad   : whether the string carries leading/trailing whitespace,        *)
(* lines : the number of lines the visible text wraps to where it is      *)
(*         rendered (0 for a string with no visible text),                *)
(* up    : whether toUpperCase() was applied.                             *)
(* The PDF library (pdfkit) is outside the repository: heightOfString and *)
(* text placement are modelled as lines * (line height + lineGap).        *)
(* Time stamps (generatedAt, the PDF's creation date) are left out of the *)
(* modelled output.                                                       *)
(***************************************************************************)
EXTENDS Integers, Sequences, FiniteSets, TLC

VARIABLES req, world, pc, running, args, lay, idx, promise, buffers, stream,
          responses

vars == <<req, world, pc, running, args, lay, idx, promise, buffers, stream,
          responses>>

(* Handler invocations that may be in flight. *)
Inv == {1, 2}

(* ------------------------------ bounds -------------------------------- *)
MaxSkills == 2
MaxEntries == 2
TallLines == 20
HugeLines == 45
ItemsPerLine == 8
FitLines == 27

(* ------------------------- program constants -------------------------- *)
PageThreshold == 750
TopMargin == 50
PageWidth == 515
LeftMargin == 40
(* new PDFDocument({margin: 40, size: 'A4'}): the page is 841 high, text   *)
(* may reach down to the bottom margin and restarts at the top margin.    *)
MarginTop == 40
MaxY == 801

(* ------------------------------ strings ------------------------------- *)
Str(n, l) == [name |-> n, pad |-> FALSE, lines |-> l, up |-> FALSE]
Undefined == Str("undefined", 0)
EmptyStr == Str("", 0)
Blank == [name |-> "", pad |-> TRUE, lines |-> 0, up |-> FALSE]
Padded(s) == [s EXCEPT !.pad = TRUE]

IsDefined(s) == s.name # "undefined"
(* JavaScript truthiness of a string-or-undefined value. *)
Truthy(s) == IsDefined(s) /\ (s.pad \/ s.lines > 0)
(* String.prototype.trim *)
Trim(s) == [s EXCEPT !.pad = FALSE]
(* the idiom  x && x.trim()  *)
TrimTruthy(s) == Truthy(s) /\ Truthy(Trim(s))
ToUpperCase(s) == [s EXCEPT !.up = TRUE]

(* An optional array: undefined, or an array of items. *)
NoList == [def |-> FALSE, items |-> << >>]
List(s) == [def |-> TRUE, items |-> s]
(* the idiom  xs && xs.length > 0  *)
NonEmptyList(l) == l.def /\ Len(l.items) > 0

Range(s) == {s[k] : k \in DOMAIN s}

RECURSIVE SeqsUpTo(_, _)
SeqsUpTo(S, n) ==
    IF n = 0 THEN {<< >>}
    ELSE LET shorter == SeqsUpTo(S, n - 1)
         IN shorter \cup {Append(s, x) : s \in shorter, x \in S}

RECURSIVE SelectSeq2(_, _)
(* Array.prototype.filter *)
SelectSeq2(s, keep) ==
    IF s = << >> THEN << >>
    ELSE IF keep[Head(s)] THEN <<Head(s)>> \o SelectSeq2(Tail(s), keep)
         ELSE SelectSeq2(Tail(s), keep)

(* ----------------------- handler: pure helpers ------------------------ *)
RECURSIVE SetInsertAll(_, _)
(* new Set(iterable): insertion order, a value already present is skipped *)
SetInsertAll(acc, s) ==
    IF s = << >> THEN acc
    ELSE SetInsertAll(IF Head(s) \in Range(acc) THEN acc ELSE Append(acc, Head(s)),
                      Tail(s))

ExistingSkills(talent) == IF talent.skills.def THEN talent.skills.items ELSE << >>

(* variant: the two lists spread into an array without the Set           *)
CombinedSkillsNoSet(existingSkills, additionalSkills) ==
    existingSkills \o additionalSkills

CombinedSkills(existingSkills, additionalSkills) ==
    SetInsertAll(<< >>, existingSkills \o additionalSkills)

(* variant: the filter tests the degree only                              *)
ValidEduDegreeOnly(edu) == edu.obj /\ TrimTruthy(edu.degree)

ValidEdu(edu) ==
    edu.obj /\ TrimTruthy(edu.degree) /\ TrimTruthy(edu.institution)
ValidExp(exp) ==
    exp.obj /\ TrimTruthy(exp.company) /\ TrimTruthy(exp.position)
ValidProj(proj) ==
    proj.obj /\ TrimTruthy(proj.title) /\ TrimTruthy(proj.description)
ValidCert(cert) ==
    cert.obj /\ TrimTruthy(cert.title) /\ TrimTruthy(cert.issuer)

ValidEducation(educationDetails) ==
    SelectSeq2(educationDetails, [e \in Range(educationDetails) |-> ValidEdu(e)])
(* variant: the kept entries returned newest first                        *)
ValidWorkExperienceReversed(workExperiences) ==
    LET kept == SelectSeq2(workExperiences, [e \in Range(workExperiences) |-> ValidExp(e)])
    IN [k \in 1..Len(kept) |-> kept[Len(kept) + 1 - k]]

ValidWorkExperience(workExperiences) ==
    SelectSeq2(workExperiences, [e \in Range(workExperiences) |-> ValidExp(e)])
ValidProjects(projects) ==
    SelectSeq2(projects, [e \in Range(projects) |-> ValidProj(e)])
ValidCertifications(certifications) ==
    SelectSeq2(certifications, [e \in Range(certifications) |-> ValidCert(e)])

(* --------------------------- text measuring --------------------------- *)
(* pdfkit's line height of the Times faces at a font size, rounded up.    *)
LineHeight(size) == (size * 116 + 99) \div 100

(* doc.heightOfString(text, {width, lineGap}) for a text of n lines.      *)
HeightOfString(n, size, lineGap) == n * (LineHeight(size) + lineGap)

RECURSIVE SumLines(_)
SumLines(parts) ==
    IF parts = << >> THEN 0 ELSE Head(parts).lines + SumLines(Tail(parts))

(* Lines of a template string built from parts that share one line.       *)
JoinLines(parts) ==
    LET vis == Cardinality({k \in DOMAIN parts : parts[k].lines > 0})
    IN IF vis = 0 THEN 1 ELSE SumLines(parts) - (vis - 1)

(* Lines of  items.join(' * ')  at the page width.                        *)
JoinedLines(items) == (Len(items) + ItemsPerLine - 1) \div ItemsPerLine

(* ------------------------------ cursor -------------------------------- *)
(* y: yPosition; page: 1 + the breaks fired by checkPageBreak; docPages:  *)
(* the pages of the pdfkit document; draws: what was placed, in order.    *)
StartLayout == [y |-> TopMargin, page |-> 1, docPages |-> 1, draws |-> << >>]

Draw(L, kind, sec, ent, x, w, text, h, link) ==
    [L EXCEPT !.draws = Append(@,
        [kind |-> kind, sec |-> sec, ent |-> ent, page |-> L.page, y |-> L.y,
         x |-> x, w |-> w, h |-> h, text |-> text, link |-> link])]

Advance(L, d) == [L EXCEPT !.y = @ + d]

RECURSIVE WrapPages(_, _, _)
(* Pages doc.text adds by itself for n lines of step lh begun at y: the   *)
(* line wrapper continues on a new page, at its top margin, whenever the  *)
(* next line would pass the bottom margin.                                *)
WrapPages(y, n, lh) ==
    IF n = 0 THEN 0
    ELSE IF y + lh > MaxY THEN 1 + WrapPages(MarginTop, n, lh)
    ELSE WrapPages(y + lh, n - 1, lh)

(* doc.text(...) at the cursor: the document grows when the text runs     *)
(* past the page; yPosition is not told.                                  *)
Text(L, n, lh) == [L EXCEPT !.docPages = @ + WrapPages(L.y, n, lh)]

(* doc.text(t, leftMargin, yPosition) of one font size, no lineGap        *)
TextLine(L, kind, sec, ent, text, size, link) ==
    Draw(Text(L, JoinLines(text), LineHeight(size)), kind, sec, ent, LeftMargin, 0, text,
         JoinLines(text) * LineHeight(size), link)

(* doc.text(t, x, yPosition, {width, lineGap}) of n wrapped lines         *)
Paragraph(L, kind, sec, ent, x, w, text, n, size, lineGap) ==
    Draw(Text(L, n, LineHeight(size) + lineGap), kind, sec, ent, x, w, text,
         HeightOfString(n, size, lineGap), Undefined)

(* variant: the offset reset without doc.addPage()                        *)
CheckPageBreakNoAddPage(L, requiredSpace) ==
    IF L.y + requiredSpace > PageThreshold THEN [L EXCEPT !.y = TopMargin] ELSE L

(* variant: the test written with >= instead of >                        *)
CheckPageBreakInclusive(L, requiredSpace) ==
    IF L.y + requiredSpace >= PageThreshold
    THEN [y |-> TopMargin, page |-> L.page + 1, docPages |-> L.docPages + 1,
          draws |-> Append(L.draws,
             [kind |-> "break", sec |-> "", ent |-> 0, page |-> L.page + 1,
              y |-> L.y, x |-> 0, w |-> 0, h |-> requiredSpace,
              text |-> << >>, link |-> Undefined])]
    ELSE L

(* checkPageBreak: the break is logged with the offset it fired at.       *)
CheckPageBreak(L, requiredSpace) ==
    IF L.y + requiredSpace > PageThreshold
    THEN [y |-> TopMargin, page |-> L.page + 1, docPages |-> L.docPages + 1,
          draws |-> Append(L.draws,
             [kind |-> "break", sec |-> "", ent |-> 0, page |-> L.page + 1,
              y |-> L.y, x |-> 0, w |-> 0, h |-> requiredSpace,
              text |-> << >>, link |-> Undefined])]
    ELSE L

LastSec(L) == IF L.draws = << >> THEN "" ELSE L.draws[Len(L.draws)].sec

(* addSectionSeparator: the rule belongs to the section drawn last.       *)
AddSectionSeparator(L) ==
    LET a == Advance(L, 15)
        r == Draw(a, "separator", LastSec(L), 0, LeftMargin, PageWidth, << >>, 1, Undefined)
    IN Advance(r, 20)

Heading(L, sec, title) ==
    Advance(TextLine(L, "heading", sec, 0, <<Str(title, 1)>>, 14, Undefined), 20)

(* ------------------------------ header -------------------------------- *)
ContactParts(m) ==
    (IF Truthy(m.talent.email) THEN <<m.talent.email>> ELSE << >>)
    \o (IF Truthy(m.contactInfo.phone) THEN <<m.contactInfo.phone>> ELSE << >>)

LinkLabels(m) ==
    (IF Truthy(m.contactInfo.linkedin) THEN <<Str("LinkedIn", 1)>> ELSE << >>)
    \o (IF Truthy(m.contactInfo.github) THEN <<Str("GitHub", 1)>> ELSE << >>)
    \o (IF Truthy(m.contactInfo.portfolio) THEN <<Str("Portfolio", 1)>> ELSE << >>)

LinkUrls(m) ==
    (IF Truthy(m.contactInfo.linkedin) THEN <<m.contactInfo.linkedin>> ELSE << >>)
    \o (IF Truthy(m.contactInfo.github) THEN <<m.contactInfo.github>> ELSE << >>)
    \o (IF Truthy(m.contactInfo.portfolio) THEN <<m.contactInfo.portfolio>> ELSE << >>)

RECURSIVE HeaderLinks(_, _, _, _)
(* the clickable labels, 80 apart, centred (x rounded down)               *)
HeaderLinks(L, m, k, startX) ==
    IF k > Len(LinkUrls(m)) THEN L
    ELSE HeaderLinks(
            Draw(Text(L, 1, LineHeight(10)), "link", "Personal Info", 0, startX, 0,
                 <<LinkLabels(m)[k]>>, LineHeight(10), LinkUrls(m)[k]),
            m, k + 1, startX + 80)

(* talent.fullname.toUpperCase() throws on an undefined fullname          *)
HeaderThrows(m) == ~IsDefined(m.talent.fullname)

RenderHeader(L, m) ==
    LET contactLine == ContactParts(m) \o LinkLabels(m)
        n  == Len(LinkUrls(m))
        l1 == Advance(Draw(Text(L, m.talent.fullname.lines, LineHeight(24)),
                           "name", "Personal Info", 0, LeftMargin, PageWidth,
                           <<ToUpperCase(m.talent.fullname)>>,
                           m.talent.fullname.lines * LineHeight(24), Undefined), 35)
        l2 == IF contactLine # << >>
              THEN Draw(Text(l1, 1, LineHeight(11)),
                        "contact", "Personal Info", 0, LeftMargin, PageWidth,
                        contactLine, LineHeight(11), Undefined)
              ELSE l1
        l3 == IF n > 0
              THEN HeaderLinks(Advance(l2, 18), m, 1,
                               LeftMargin + (PageWidth - (n - 1) * 80) \div 2)
              ELSE l2
        l4 == Advance(l3, 25)
        l5 == Draw(l4, "rule", "Personal Info", 0, LeftMargin, PageWidth, << >>, 1, Undefined)
    IN Advance(l5, 25)

(* ------------------------------ summary ------------------------------- *)
(* variant: the guard without .trim()                                     *)
HasSummaryUntrimmed(m) == Truthy(m.professionalSummary)

HasSummary(m) == TrimTruthy(m.professionalSummary)

(* variant: the summary placed at the fixed offset a header without a     *)
(* link row ends at                                                       *)
RenderSummaryFixed(L, m) ==
    IF HasSummary(m)
    THEN LET t  == Trim(m.professionalSummary)
             l1 == Heading(CheckPageBreak([L EXCEPT !.y = 135], 80),
                           "Professional Summary", "PROFESSIONAL SUMMARY")
             l2 == Paragraph(l1, "paragraph", "Professional Summary", 0, LeftMargin,
                             PageWidth, <<t>>, t.lines, 12, 2)
         IN AddSectionSeparator(Advance(l2, HeightOfString(t.lines, 12, 2) + 10))
    ELSE L

RenderSummary(L, m) ==
    IF HasSummary(m)
    THEN LET t  == Trim(m.professionalSummary)
             l1 == Heading(CheckPageBreak(L, 80), "Professional Summary", "PROFESSIONAL SUMMARY")
             l2 == Paragraph(l1, "paragraph", "Professional Summary", 0, LeftMargin,
                             PageWidth, <<t>>, t.lines, 12, 2)
         IN AddSectionSeparator(Advance(l2, HeightOfString(t.lines, 12, 2) + 10))
    ELSE L

(* ----------------------------- education ------------------------------ *)
HasEducation(m) == Len(m.educationDetails) > 0

EducationHeading(L) == Heading(CheckPageBreak(L, 100), "Education", "EDUCATION")

(* variant: the suffix appended without the test of the field             *)
WithSuffixAlways(main, suffix) == <<main, suffix>>

(* let text = main; if (suffix) text += ` * ${suffix}`                    *)
WithSuffix(main, suffix) == IF Truthy(suffix) THEN <<main, suffix>> ELSE <<main>>

(* variant: the two dates interpolated without their defaults             *)
DateRangeNoDefault(startDate, endDate) == <<startDate, endDate>>

(* `${startDate || ''} - ${endDate || 'Present'}`                         *)
DateRange(startDate, endDate) ==
    << IF Truthy(startDate) THEN startDate ELSE EmptyStr,
       IF Truthy(endDate) THEN endDate ELSE Str("Present", 1) >>

(* variant: only the degree line's advance is reserved                    *)
EducationEntryShortReserve(L, m, k) ==
    LET edu == m.educationDetails[k]
        l0 == CheckPageBreak(L, 16)
        l1 == Advance(TextLine(l0, "title", "Education", k, <<edu.degree>>, 12, Undefined), 16)
        l2 == Advance(TextLine(l1, "subtitle", "Education", k,
                               WithSuffix(edu.institution, edu.location), 11, Undefined), 14)
        l3 == IF Truthy(edu.startDate) \/ Truthy(edu.endDate)
              THEN Advance(TextLine(l2, "date", "Education", k,
                                    DateRange(edu.startDate, edu.endDate), 10, Undefined), 18)
              ELSE Advance(l2, 8)
        l4 == IF k < Len(m.educationDetails) THEN Advance(l3, 10) ELSE l3
    IN IF k = Len(m.educationDetails) THEN AddSectionSeparator(l4) ELSE l4

EducationEntry(L, m, k) ==
    LET edu == m.educationDetails[k]
        l0 == CheckPageBreak(L, 60)
        l1 == Advance(TextLine(l0, "title", "Education", k, <<edu.degree>>, 12, Undefined), 16)
        l2 == Advance(TextLine(l1, "subtitle", "Education", k,
                               WithSuffix(edu.institution, edu.location), 11, Undefined), 14)
        l3 == IF Truthy(edu.startDate) \/ Truthy(edu.endDate)
              THEN Advance(TextLine(l2, "date", "Education", k,
                                    DateRange(edu.startDate, edu.endDate), 10, Undefined), 18)
              ELSE Advance(l2, 8)
        l4 == IF k < Len(m.educationDetails) THEN Advance(l3, 10) ELSE l3
    IN IF k = Len(m.educationDetails) THEN AddSectionSeparator(l4) ELSE l4

(* -------------------------- work experience --------------------------- *)
HasWork(m) == Len(m.workExperiences) > 0

WorkHeading(L) == Heading(CheckPageBreak(L, 100), "Work Experience", "WORK EXPERIENCE")

WorkEntry(L, m, k) ==
    LET exp == m.workExperiences[k]
        d  == Trim(exp.description)
        l0 == CheckPageBreak(L, 80)
        l1 == Advance(TextLine(l0, "title", "Work Experience", k, <<exp.position>>, 12, Undefined), 16)
        l2 == Advance(TextLine(l1, "subtitle", "Work Experience", k,
                               WithSuffix(exp.company, exp.location), 11, Undefined), 14)
        l3 == IF Truthy(exp.startDate) \/ Truthy(exp.endDate)
              THEN Advance(TextLine(l2, "date", "Work Experience", k,
                                    DateRange(exp.startDate, exp.endDate), 10, Undefined), 16)
              ELSE l2
        l4 == IF TrimTruthy(exp.description)
              THEN Advance(Paragraph(l3, "paragraph", "Work Experience", k, LeftMargin,
                                     PageWidth, <<d>>, d.lines, 12, 2),
                           HeightOfString(d.lines, 12, 2) + 10)
              ELSE l3
        l5 == IF k < Len(m.workExperiences) THEN Advance(l4, 15) ELSE l4
    IN IF k = Len(m.workExperiences) THEN AddSectionSeparator(l5) ELSE l5

(* ------------------------------ projects ------------------------------ *)
HasProjects(m) == Len(m.projects) > 0

(* variant: only the heading's own advance is reserved                    *)
ProjectsHeadingAlone(L) == Heading(CheckPageBreak(L, 20), "Projects", "PROJECTS")

ProjectsHeading(L) == Heading(CheckPageBreak(L, 100), "Projects", "PROJECTS")

(* variant: the link tested and targeted without trim()                   *)
TitleLineUntrimmed(L, sec, k, title, link) ==
    IF Truthy(link)
    THEN TextLine(L, "title", sec, k, <<title>>, 12, link)
    ELSE TextLine(L, "title", sec, k, <<title>>, 12, Undefined)

(* the title of a project or certification: a link span or plain bold     *)
TitleLine(L, sec, k, title, link) ==
    IF TrimTruthy(link)
    THEN TextLine(L, "title", sec, k, <<title>>, 12, Trim(link))
    ELSE TextLine(L, "title", sec, k, <<title>>, 12, Undefined)

RECURSIVE ProjectDetails(_, _, _)
ProjectDetails(L, k, details) ==
    IF details = << >> THEN L
    ELSE LET detail == Head(details)
             t  == Trim(detail)
             l0 == CheckPageBreak(L, 30)
             l1 == Paragraph(l0, "bullet", "Projects", k, LeftMargin + 15,
                             PageWidth - 15, <<Str("*", 0), t>>, t.lines, 11, 1)
         IN ProjectDetails(
               IF TrimTruthy(detail)
               THEN Advance(l1, HeightOfString(t.lines, 11, 1) + 5)
               ELSE L,
               k, Tail(details))

ProjectEntry(L, m, k) ==
    LET project == m.projects[k]
        d  == Trim(project.description)
        t  == Trim(project.technologies)
        l0 == CheckPageBreak(L, 80)
        l1 == Advance(TitleLine(l0, "Projects", k, project.title, project.link), 16)
        l2 == IF TrimTruthy(project.description)
              THEN Advance(Paragraph(l1, "paragraph", "Projects", k, LeftMargin,
                                     PageWidth, <<d>>, d.lines, 12, 2),
                           HeightOfString(d.lines, 12, 2) + 10)
              ELSE l1
        l3 == IF TrimTruthy(project.technologies)
              THEN Advance(TextLine(l2, "tech", "Projects", k,
                                    <<Str("Technologies: ", 1), t>>, 11, Undefined), 16)
              ELSE l2
        l4 == IF NonEmptyList(project.details)
              THEN ProjectDetails(l3, k, project.details.items)
              ELSE l3
        l5 == IF k < Len(m.projects) THEN Advance(l4, 15) ELSE l4
    IN IF k = Len(m.projects) THEN AddSectionSeparator(l5) ELSE l5

(* ------------------------------- skills ------------------------------- *)
HasSkills(m) == Len(m.combinedSkills) > 0

RenderSkills(L, m) ==
    IF HasSkills(m)
    THEN LET n  == JoinedLines(m.combinedSkills)
             l1 == Heading(CheckPageBreak(L, 60), "Skills", "TECHNICAL SKILLS")
             l2 == Paragraph(l1, "paragraph", "Skills", 0, LeftMargin, PageWidth,
                             m.combinedSkills, n, 12, 2)
         IN AddSectionSeparator(Advance(l2, HeightOfString(n, 12, 2) + 10))
    ELSE L

(* --------------------------- certifications --------------------------- *)
HasCertifications(m) == Len(m.certifications) > 0

CertificationsHeading(L) ==
    Heading(CheckPageBreak(L, 80), "Certifications", "CERTIFICATIONS & ACHIEVEMENTS")

(* variant: the spacing added after every entry, the last included        *)
CertificationEntrySpaced(L, m, k) ==
    LET cert == m.certifications[k]
        l0 == CheckPageBreak(L, 50)
        l1 == Advance(TitleLine(l0, "Certifications", k, cert.title, cert.link), 16)
        l2 == Advance(TextLine(l1, "subtitle", "Certifications", k,
                               WithSuffix(cert.issuer, cert.date), 11, Undefined), 14)
        l3 == Advance(l2, 10)
    IN IF k = Len(m.certifications) THEN AddSectionSeparator(l3) ELSE l3

CertificationEntry(L, m, k) ==
    LET cert == m.certifications[k]
        l0 == CheckPageBreak(L, 50)
        l1 == Advance(TitleLine(l0, "Certifications", k, cert.title, cert.link), 16)
        l2 == Advance(TextLine(l1, "subtitle", "Certifications", k,
                               WithSuffix(cert.issuer, cert.date), 11, Undefined), 14)
        l3 == IF k < Len(m.certifications) THEN Advance(l2, 10) ELSE l2
    IN IF k = Len(m.certifications) THEN AddSectionSeparator(l3) ELSE l3

(* ------------------------------ interests ----------------------------- *)
(* variant: the guard without the length test                             *)
HasInterestsAnyArray(m) == m.talent.interests.def

HasInterests(m) == NonEmptyList(m.talent.interests)

(* variant: the page-break check made before the guard of the section     *)
RenderInterestsHoistedCheck(L, m) ==
    LET l0 == CheckPageBreak(L, 60) IN
    IF HasInterests(m)
    THEN LET l1 == Heading(l0, "Interests", "INTERESTS")
         IN Paragraph(l1, "paragraph", "Interests", 0, LeftMargin, PageWidth,
                      m.talent.interests.items, JoinedLines(m.talent.interests.items), 12, 2)
    ELSE l0

RenderInterests(L, m) ==
    IF HasInterests(m)
    THEN LET l1 == Heading(CheckPageBreak(L, 60), "Interests", "INTERESTS")
         IN Paragraph(l1, "paragraph", "Interests", 0, LeftMargin, PageWidth,
                      m.talent.interests.items, JoinedLines(m.talent.interests.items), 12, 2)
    ELSE L

(* --------------------- one render, start to finish -------------------- *)
RECURSIVE EducationLoop(_, _, _)
EducationLoop(L, m, k) ==
    IF k > Len(m.educationDetails) THEN L
    ELSE EducationLoop(EducationEntry(L, m, k), m, k + 1)

RECURSIVE WorkLoop(_, _, _)
WorkLoop(L, m, k) ==
    IF k > Len(m.workExperiences) THEN L ELSE WorkLoop(WorkEntry(L, m, k), m, k + 1)

RECURSIVE ProjectsLoop(_, _, _)
ProjectsLoop(L, m, k) ==
    IF k > Len(m.projects) THEN L ELSE ProjectsLoop(ProjectEntry(L, m, k), m, k + 1)

RECURSIVE CertificationsLoop(_, _, _)
CertificationsLoop(L, m, k) ==
    IF k > Len(m.certifications) THEN L
    ELSE CertificationsLoop(CertificationEntry(L, m, k), m, k + 1)

(* The layout generatePDF computes for m when nothing else runs.  The     *)
(* tests  page > 0  are always true: they make TLC evaluate one section    *)
(* before it starts the next.                                              *)
RenderAlone(m) ==
    LET l0 == RenderHeader(StartLayout, m)
        l1 == IF l0.page > 0 THEN RenderSummary(l0, m) ELSE l0
        l2 == IF l1.page > 0 /\ HasEducation(m)
              THEN EducationLoop(EducationHeading(l1), m, 1) ELSE l1
        l3 == IF l2.page > 0 /\ HasWork(m) THEN WorkLoop(WorkHeading(l2), m, 1) ELSE l2
        l4 == IF l3.page > 0 /\ HasProjects(m)
              THEN ProjectsLoop(ProjectsHeading(l3), m, 1) ELSE l3
        l5 == IF l4.page > 0 THEN RenderSkills(l4, m) ELSE l4
        l6 == IF l5.page > 0 /\ HasCertifications(m)
              THEN CertificationsLoop(CertificationsHeading(l5), m, 1) ELSE l5
    IN IF l6.page > 0 THEN RenderInterests(l6, m) ELSE l6

(* ------------------------- the inputs explored ------------------------ *)
Go == Str("Go", 1)
SQL == Str("SQL", 1)
Rust == Str("Rust", 1)
SkillPool == {Go, SQL, Rust}

NoContact ==
    [phone |-> Undefined, linkedin |-> Undefined, github |-> Undefined, portfolio |-> Undefined]
PhoneOnly == [NoContact EXCEPT !.phone = Str("555-0100", 1)]
TwoLinks == [NoContact EXCEPT !.linkedin = Str("https://linkedin.example/ada", 1),
                              !.portfolio = Str("https://ada.example", 1)]
FullContact == [phone |-> Str("555-0100", 1), linkedin |-> Str("https://linkedin.example/ada", 1),
                github |-> Str("https://github.example/ada", 1),
                portfolio |-> Str("https://ada.example", 1)]
Contacts == {NoContact, PhoneOnly, TwoLinks, FullContact}

TalentNameOnly ==
    [fullname |-> Str("Ada Lovelace", 1), email |-> Undefined, skills |-> NoList,
     interests |-> NoList]
TalentNameEmail == [TalentNameOnly EXCEPT !.email = Str("ada@example.org", 1)]
TalentEmptyLists ==
    [TalentNameEmail EXCEPT !.skills = List(<< >>), !.interests = List(<< >>)]
TalentNoName == [TalentNameEmail EXCEPT !.fullname = Undefined]
TalentFull ==
    [TalentNameEmail EXCEPT !.skills = List(<<Go, SQL>>),
                            !.interests = List(<<Str("chess", 1), Str("hiking", 1)>>)]
Talents == {TalentNameOnly, TalentNameEmail, TalentEmptyLists, TalentNoName, TalentFull}

(* FitLines lines below a header with links end at offset 650: the next   *)
(* reserve of 100 reaches 750 exactly.                                    *)
Summaries ==
    {EmptyStr, Blank, Padded(Str("summary", 3)), Str("long summary", HugeLines),
     Str("fitting summary", FitLines)}

EduFull ==
    [obj |-> TRUE, degree |-> Str("BSc", 1), institution |-> Str("MIT", 1),
     location |-> Str("Boston", 1), startDate |-> Str("2019", 1), endDate |-> Str("2023", 1)]
EduBare ==
    [obj |-> TRUE, degree |-> Str("MSc", 1), institution |-> Padded(Str("ETH", 1)),
     location |-> Undefined, startDate |-> Undefined, endDate |-> Undefined]
EduOpen == [EduBare EXCEPT !.degree = Str("PhD", 1), !.startDate = Str("2024", 1)]
EduEnded == [EduBare EXCEPT !.degree = Str("Diploma", 1), !.startDate = EmptyStr,
                            !.endDate = Str("2018", 1)]
EduWrap == [EduFull EXCEPT !.degree = Str("Joint degree with a long title", 2)]
EduNoInstitution == [EduFull EXCEPT !.degree = Str("MBA", 1), !.institution = EmptyStr]
EduBlankDegree == [EduFull EXCEPT !.degree = Blank, !.institution = Str("Yale", 1)]
EduNoDegree == [EduFull EXCEPT !.degree = Undefined, !.institution = Str("Oxford", 1)]
EduNull ==
    [obj |-> FALSE, degree |-> Undefined, institution |-> Undefined,
     location |-> Undefined, startDate |-> Undefined, endDate |-> Undefined]
EduPool ==
    {EduFull, EduBare, EduOpen, EduEnded, EduNoInstitution, EduBlankDegree, EduNoDegree,
     EduNull}

ExpFull ==
    [obj |-> TRUE, position |-> Str("Engineer", 1), company |-> Str("Acme", 1),
     location |-> Str("Paris", 1), startDate |-> Str("2020", 1), endDate |-> Undefined,
     description |-> Padded(Str("built things", 2))]
ExpBare ==
    [obj |-> TRUE, position |-> Str("Intern", 1), company |-> Str("Initech", 1),
     location |-> Undefined, startDate |-> Undefined, endDate |-> Undefined,
     description |-> Undefined]
ExpEnded == [ExpBare EXCEPT !.position = Str("Temp", 1), !.endDate = Str("2017", 1)]
ExpBlankDescription == [ExpBare EXCEPT !.position = Str("Clerk", 1), !.description = Blank]
ExpTall == [ExpFull EXCEPT !.position = Str("Lead", 1),
                           !.description = Str("a tall description", TallLines)]
ExpHuge == [ExpFull EXCEPT !.position = Str("Director", 1),
                           !.description = Str("a huge description", HugeLines)]
ExpNoCompany == [ExpFull EXCEPT !.position = Str("Ghost", 1), !.company = Undefined]
ExpBlankPosition == [ExpFull EXCEPT !.position = Blank, !.company = Str("Globex", 1)]
ExpPool ==
    {ExpFull, ExpBare, ExpEnded, ExpBlankDescription, ExpTall, ExpNoCompany,
     ExpBlankPosition}

ProjFull ==
    [obj |-> TRUE, title |-> Str("Compiler", 1), description |-> Str("a compiler", 2),
     link |-> Padded(Str("https://compiler.example", 1)),
     technologies |-> Padded(Str("OCaml", 1)),
     details |-> List(<<Str("fast", 1), Blank, Str("a bullet that wraps", 3)>>)]
ProjPlain ==
    [obj |-> TRUE, title |-> Str("Blog", 1), description |-> Str("a blog", 1),
     link |-> Undefined, technologies |-> Undefined, details |-> NoList]
ProjBlankLink == [ProjPlain EXCEPT !.title = Str("Wiki", 1), !.link = Blank,
                                   !.technologies = Blank, !.details = List(<< >>)]
ProjTall == [ProjFull EXCEPT !.title = Str("Thesis", 1),
                             !.description = Str("a tall description", TallLines)]
ProjNoDescription == [ProjFull EXCEPT !.title = Str("Secret", 1), !.description = Undefined]
ProjBlankTitle == [ProjFull EXCEPT !.title = Blank, !.description = Str("untitled", 1)]
ProjPool == {ProjFull, ProjPlain, ProjBlankLink, ProjTall, ProjNoDescription, ProjBlankTitle}

CertFull ==
    [obj |-> TRUE, title |-> Str("AWS SA", 1), issuer |-> Str("Amazon", 1),
     link |-> Str("https://cert.example/1", 1), date |-> Str("2022", 1)]
CertPlain ==
    [obj |-> TRUE, title |-> Str("CKA", 1), issuer |-> Str("CNCF", 1),
     link |-> Undefined, date |-> Undefined]
CertNoIssuer == [CertFull EXCEPT !.title = Str("Fake", 1), !.issuer = Blank]
CertNoTitle == [CertFull EXCEPT !.title = Undefined, !.issuer = Str("Nobody", 1)]
CertPool == {CertFull, CertPlain, CertNoIssuer, CertNoTitle}

TalentId == Str("talent-1", 1)

Input(talentId, additionalSkills, educationDetails, workExperiences, projects, certifications, contactInfo, documents, summary) ==
    [req |-> [talentId |-> talentId, additionalSkills |-> additionalSkills,
              educationDetails |-> educationDetails,
              workExperiences |-> workExperiences, projects |-> projects,
              certifications |-> certifications, contactInfo |-> contactInfo],
     world |-> [documents |-> documents, summary |-> summary]]

(* Sections of varied height, every entry valid or not, full header.      *)
LayoutInputs ==
    {Input(TalentId, List(<<SQL, Rust>>), List(e), List(w), List(p), List(c),
           FullContact, <<TalentFull>>, s) :
        e \in {<< >>, <<EduFull>>, <<EduBare, EduOpen>>, <<EduFull, EduNoInstitution, EduWrap>>},
        w \in {<< >>, <<ExpBare>>, <<ExpFull, ExpTall>>, <<ExpTall, ExpNoCompany, ExpTall>>,
               <<ExpBlankDescription, ExpHuge>>},
        p \in {<< >>, <<ProjPlain>>, <<ProjFull, ProjBlankLink>>, <<ProjTall, ProjFull>>},
        c \in {<< >>, <<CertFull>>, <<CertPlain, CertNoIssuer, CertFull>>},
        s \in Summaries}

(* Every pair of skill lists up to MaxSkills long, duplicates included.   *)
SkillInputs ==
    {Input(TalentId, a, NoList, NoList, NoList, NoList, NoContact,
           <<[TalentNameEmail EXCEPT !.skills = x]>>, Str("summary", 3)) :
        a \in {NoList} \cup {List(q) : q \in SeqsUpTo(SkillPool, MaxSkills)},
        x \in {NoList} \cup {List(q) : q \in SeqsUpTo(SkillPool, MaxSkills)}}

(* Every list of raw entries up to MaxEntries long, one section at a time. *)
ValidationInputs ==
    {Input(TalentId, NoList, List(e), NoList, NoList, NoList, NoContact,
           <<TalentNameOnly>>, EmptyStr) : e \in SeqsUpTo(EduPool, MaxEntries)}
    \cup {Input(TalentId, NoList, NoList, List(w), NoList, NoList, NoContact,
           <<TalentNameOnly>>, EmptyStr) : w \in SeqsUpTo(ExpPool, MaxEntries)}
    \cup {Input(TalentId, NoList, NoList, NoList, List(p), NoList, NoContact,
           <<TalentNameOnly>>, EmptyStr) : p \in SeqsUpTo(ProjPool, MaxEntries)}
    \cup {Input(TalentId, NoList, NoList, NoList, NoList, List(c), NoContact,
           <<TalentNameOnly>>, EmptyStr) : c \in SeqsUpTo(CertPool, MaxEntries)}

(* Requests with no entries at all, every talent record and contact.      *)
MinimalInputs ==
    {Input(t, NoList, NoList, NoList, NoList, NoList, c, d, s) :
        t \in {Undefined, EmptyStr, TalentId},
        c \in Contacts,
        d \in {<< >>} \cup {<<x>> : x \in Talents},
        s \in Summaries}

Inputs == LayoutInputs \cup SkillInputs \cup ValidationInputs \cup MinimalInputs

(* The inputs of two invocations in flight together.                      *)
PairInputs ==
    {Input(TalentId, List(<<SQL>>), List(<<EduFull>>), List(w), List(<<ProjFull>>),
           List(<<CertPlain>>), c, <<t>>, Padded(Str("summary", 3))) :
        w \in {<< >>, <<ExpFull, ExpTall>>},
        c \in {TwoLinks},
        t \in {TalentNameOnly, TalentFull}}
    \cup {Input(TalentId, NoList, NoList, NoList, NoList, NoList, NoContact, << >>, EmptyStr)}

(* ------------------------------ handler ------------------------------- *)
NoTalent == [fullname |-> Undefined, email |-> Undefined, skills |-> NoList,
             interests |-> NoList]

NoArgs ==
    [talent |-> NoTalent, combinedSkills |-> << >>, educationDetails |-> << >>,
     workExperiences |-> << >>, projects |-> << >>, certifications |-> << >>,
     contactInfo |-> NoContact, professionalSummary |-> Undefined]

NoPromise == [state |-> "none", value |-> << >>]
NoStream == [queue |-> << >>, state |-> "idle", errored |-> FALSE]

(* Buffer.toString('base64') *)
Base64(bytes) == [encoding |-> "base64", data |-> bytes]
NoPdfData == [encoding |-> "none", data |-> << >>]

MetadataSections ==
    <<"Personal Info", "Professional Summary", "Education", "Work Experience",
      "Projects", "Skills", "Certifications">>

Failure(status) ==
    [success |-> FALSE, status |-> status, pdfData |-> NoPdfData, sections |-> << >>]
Success(pdfBuffer) ==
    [success |-> TRUE, status |-> 200, pdfData |-> Base64(pdfBuffer),
     sections |-> MetadataSections]

(* the arguments the handler builds for generatePDF (summary still open)  *)
BuildArgs(r, talent) ==
    [talent |-> talent,
     combinedSkills |-> CombinedSkills(ExistingSkills(talent), r.additionalSkills.items),
     educationDetails |-> ValidEducation(r.educationDetails.items),
     workExperiences |-> ValidWorkExperience(r.workExperiences.items),
     projects |-> ValidProjects(r.projects.items),
     certifications |-> ValidCertifications(r.certifications.items),
     contactInfo |-> r.contactInfo,
     professionalSummary |-> Undefined]

(* let yPosition = 50  and  const buffers = []  of one generatePDF call   *)
(* variant: yPosition kept at module level, not reset per call            *)
StartYLeftover(i) ==
    IF \E j \in Inv \ {i} : pc[j] \in {"await_pdf", "done"} /\ promise[j].state # "none"
    THEN lay[CHOOSE j \in Inv \ {i} :
                pc[j] \in {"await_pdf", "done"} /\ promise[j].state # "none"].y
    ELSE TopMargin

StartY(i) == TopMargin
NewBuffers(i) == << >>

(* buffers.push.bind(buffers): the 'data' listener of call i              *)
(* variant: one buffers array at module level, shared by every call       *)
PushChunkShared(bufs, i, chunk) == [j \in Inv |-> Append(bufs[j], chunk)]

PushChunk(bufs, i, chunk) == [bufs EXCEPT ![i] = Append(@, chunk)]

(* A promise settles once: later resolve/reject calls change nothing.     *)
Resolve(p, v) == IF p.state = "pending" THEN [state |-> "resolved", value |-> v] ELSE p
Reject(p) == IF p.state = "pending" THEN [state |-> "rejected", value |-> << >>] ELSE p

(* doc.on('end', ...) and doc.on('error', reject)                         *)
RECURSIVE Concat(_)
(* Buffer.concat(buffers) *)
Concat(bufs) == IF bufs = << >> THEN << >> ELSE Head(bufs).body \o Concat(Tail(bufs))

(* variant: the error listener resolves with what was received           *)
OnErrorPartial(p, bufs) == Resolve(p, Concat(bufs))

(* variant: the end listener resolves with the first chunk only          *)
OnEndFirstChunk(p, bufs) == Resolve(p, IF bufs = << >> THEN << >> ELSE Head(bufs).body)

OnEnd(p, bufs) == Resolve(p, Concat(bufs))
OnError(p, bufs) == Reject(p)

(* The bytes of a finished document: one chunk per page, in page order.   *)
PageChunk(L, p) ==
    [page |-> p,
     body |-> SelectSeq(L.draws, LAMBDA d : d.page = p /\ d.kind # "break")]
Chunks(L) == [p \in 1..L.page |-> PageChunk(L, p)]

Respond(i, r) == responses' = [responses EXCEPT ![i] = Append(@, r)]

Init ==
    /\ \E in \in Inputs :
          /\ req = [i \in Inv |-> in.req]
          /\ world = [i \in Inv |-> in.world]
    /\ pc = [i \in Inv |-> IF i = 1 THEN "start" ELSE "off"]
    /\ running = 0
    /\ args = [i \in Inv |-> NoArgs]
    /\ lay = [i \in Inv |-> StartLayout]
    /\ idx = [i \in Inv |-> 0]
    /\ promise = [i \in Inv |-> NoPromise]
    /\ buffers = [i \in Inv |-> << >>]
    /\ stream = [i \in Inv |-> NoStream]
    /\ responses = [i \in Inv |-> << >>]

InitPair ==
    /\ \E a \in PairInputs, b \in PairInputs :
          /\ req = [i \in Inv |-> IF i = 1 THEN a.req ELSE b.req]
          /\ world = [i \in Inv |-> IF i = 1 THEN a.world ELSE b.world]
    /\ pc = [i \in Inv |-> "start"]
    /\ running = 0
    /\ args = [i \in Inv |-> NoArgs]
    /\ lay = [i \in Inv |-> StartLayout]
    /\ idx = [i \in Inv |-> 0]
    /\ promise = [i \in Inv |-> NoPromise]
    /\ buffers = [i \in Inv |-> << >>]
    /\ stream = [i \in Inv |-> NoStream]
    /\ responses = [i \in Inv |-> << >>]

Goto(i, label) == pc' = [pc EXCEPT ![i] = label]

(* variant: the query issued without the talentId check                  *)
StartUnchecked(i) ==
    /\ running = 0 /\ pc[i] = "start"
    /\ Goto(i, "await_db")
    /\ UNCHANGED <<req, world, running, args, lay, idx, promise, buffers, stream, responses>>

(* lines 14-41: parse the body, check talentId, issue the query           *)
Start(i) ==
    /\ running = 0 /\ pc[i] = "start"
    /\ IF ~Truthy(req[i].talentId)
       THEN Goto(i, "done") /\ Respond(i, Failure(400))
       ELSE Goto(i, "await_db") /\ UNCHANGED responses
    /\ UNCHANGED <<req, world, running, args, lay, idx, promise, buffers, stream>>

(* variant: the 403 answer sent without return, so the error is rethrown *)
DbUnauthorizedNoReturn(i) ==
    /\ running = 0 /\ pc[i] = "await_db"
    /\ Goto(i, "done")
    /\ responses' = [responses EXCEPT ![i] = Append(Append(@, Failure(403)), Failure(500))]
    /\ UNCHANGED <<req, world, running, args, lay, idx, promise, buffers, stream>>

(* lines 43-53: the query fails with a 'not authorized' message           *)
DbUnauthorized(i) ==
    /\ running = 0 /\ pc[i] = "await_db"
    /\ Goto(i, "done") /\ Respond(i, Failure(403))
    /\ UNCHANGED <<req, world, running, args, lay, idx, promise, buffers, stream>>

(* lines 43-55, 152-158: any other query failure is rethrown and caught   *)
DbError(i) ==
    /\ running = 0 /\ pc[i] = "await_db"
    /\ Goto(i, "done") /\ Respond(i, Failure(500))
    /\ UNCHANGED <<req, world, running, args, lay, idx, promise, buffers, stream>>

(* lines 58-60 *)
TalentNotFound(i) ==
    /\ running = 0 /\ pc[i] = "await_db"
    /\ Len(world[i].documents) = 0
    /\ Goto(i, "done") /\ Respond(i, Failure(404))
    /\ UNCHANGED <<req, world, running, args, lay, idx, promise, buffers, stream>>

(* lines 62-122: skills, filters, prompt, generateContent issued          *)
TalentFound(i) ==
    /\ running = 0 /\ pc[i] = "await_db"
    /\ Len(world[i].documents) > 0
    /\ args' = [args EXCEPT ![i] = BuildArgs(req[i], world[i].documents[1])]
    /\ Goto(i, "await_llm")
    /\ UNCHANGED <<req, world, running, lay, idx, promise, buffers, stream, responses>>

(* lines 122-123 fail: caught at 152-158                                  *)
SummaryFailed(i) ==
    /\ running = 0 /\ pc[i] = "await_llm"
    /\ Goto(i, "done") /\ Respond(i, Failure(500))
    /\ UNCHANGED <<req, world, running, args, lay, idx, promise, buffers, stream>>

(* lines 122-136, 162-177: the summary arrives and generatePDF is called; *)
(* the promise executor then runs to doc.end() without yielding.          *)
SummaryReady(i) ==
    /\ running = 0 /\ pc[i] = "await_llm"
    /\ args' = [args EXCEPT ![i].professionalSummary = world[i].summary]
    /\ promise' = [promise EXCEPT ![i] = [state |-> "pending", value |-> << >>]]
    /\ buffers' = [buffers EXCEPT ![i] = NewBuffers(i)]
    /\ lay' = [lay EXCEPT ![i] = [StartLayout EXCEPT !.y = StartY(i)]]
    /\ running' = i
    /\ Goto(i, "header")
    /\ UNCHANGED <<req, world, idx, stream, responses>>

(* ------------------------- generatePDF: layout ------------------------ *)
Layout(i, L) == lay' = [lay EXCEPT ![i] = L]
SetIdx(i, k) == idx' = [idx EXCEPT ![i] = k]

(* lines 200-287; an exception in the executor rejects the promise        *)
Header(i) ==
    /\ running = i /\ pc[i] = "header"
    /\ IF HeaderThrows(args[i])
       THEN /\ promise' = [promise EXCEPT ![i] = Reject(@)]
            /\ running' = 0
            /\ Goto(i, "await_pdf")
            /\ UNCHANGED lay
       ELSE /\ Layout(i, RenderHeader(lay[i], args[i]))
            /\ Goto(i, "summary")
            /\ UNCHANGED <<promise, running>>
    /\ UNCHANGED <<req, world, args, idx, buffers, stream, responses>>

(* lines 289-313 *)
Summary(i) ==
    /\ running = i /\ pc[i] = "summary"
    /\ Layout(i, RenderSummary(lay[i], args[i]))
    /\ Goto(i, "education")
    /\ UNCHANGED <<req, world, running, args, idx, promise, buffers, stream, responses>>

(* lines 315-323 *)
EducationStart(i) ==
    /\ running = i /\ pc[i] = "education"
    /\ IF HasEducation(args[i])
       THEN Layout(i, EducationHeading(lay[i])) /\ SetIdx(i, 1) /\ Goto(i, "edu_entry")
       ELSE Goto(i, "work") /\ UNCHANGED <<lay, idx>>
    /\ UNCHANGED <<req, world, running, args, promise, buffers, stream, responses>>

(* lines 325-366: one iteration of the forEach, the separator after the last *)
EducationStep(i) ==
    /\ running = i /\ pc[i] = "edu_entry"
    /\ Layout(i, EducationEntry(lay[i], args[i], idx[i]))
    /\ IF idx[i] < Len(args[i].educationDetails)
       THEN SetIdx(i, idx[i] + 1) /\ UNCHANGED pc
       ELSE SetIdx(i, 0) /\ Goto(i, "work")
    /\ UNCHANGED <<req, world, running, args, promise, buffers, stream, responses>>

(* lines 368-376 *)
WorkStart(i) ==
    /\ running = i /\ pc[i] = "work"
    /\ IF HasWork(args[i])
       THEN Layout(i, WorkHeading(lay[i])) /\ SetIdx(i, 1) /\ Goto(i, "work_entry")
       ELSE Goto(i, "projects") /\ UNCHANGED <<lay, idx>>
    /\ UNCHANGED <<req, world, running, args, promise, buffers, stream, responses>>

(* lines 378-433 *)
WorkStep(i) ==
    /\ running = i /\ pc[i] = "work_entry"
    /\ Layout(i, WorkEntry(lay[i], args[i], idx[i]))
    /\ IF idx[i] < Len(args[i].workExperiences)
       THEN SetIdx(i, idx[i] + 1) /\ UNCHANGED pc
       ELSE SetIdx(i, 0) /\ Goto(i, "projects")
    /\ UNCHANGED <<req, world, running, args, promise, buffers, stream, responses>>

(* lines 435-443 *)
ProjectsStart(i) ==
    /\ running = i /\ pc[i] = "projects"
    /\ IF HasProjects(args[i])
       THEN Layout(i, ProjectsHeading(lay[i])) /\ SetIdx(i, 1) /\ Goto(i, "proj_entry")
       ELSE Goto(i, "skills") /\ UNCHANGED <<lay, idx>>
    /\ UNCHANGED <<req, world, running, args, promise, buffers, stream, responses>>

(* lines 445-522 *)
ProjectsStep(i) ==
    /\ running = i /\ pc[i] = "proj_entry"
    /\ Layout(i, ProjectEntry(lay[i], args[i], idx[i]))
    /\ IF idx[i] < Len(args[i].projects)
       THEN SetIdx(i, idx[i] + 1) /\ UNCHANGED pc
       ELSE SetIdx(i, 0) /\ Goto(i, "skills")
    /\ UNCHANGED <<req, world, running, args, promise, buffers, stream, responses>>

(* lines 524-549 *)
Skills(i) ==
    /\ running = i /\ pc[i] = "skills"
    /\ Layout(i, RenderSkills(lay[i], args[i]))
    /\ Goto(i, "certifications")
    /\ UNCHANGED <<req, world, running, args, idx, promise, buffers, stream, responses>>

(* lines 551-559 *)
CertificationsStart(i) ==
    /\ running = i /\ pc[i] = "certifications"
    /\ IF HasCertifications(args[i])
       THEN Layout(i, CertificationsHeading(lay[i])) /\ SetIdx(i, 1) /\ Goto(i, "cert_entry")
       ELSE Goto(i, "interests") /\ UNCHANGED <<lay, idx>>
    /\ UNCHANGED <<req, world, running, args, promise, buffers, stream, responses>>

(* lines 561-600 *)
CertificationsStep(i) ==
    /\ running = i /\ pc[i] = "cert_entry"
    /\ Layout(i, CertificationEntry(lay[i], args[i], idx[i]))
    /\ IF idx[i] < Len(args[i].certifications)
       THEN SetIdx(i, idx[i] + 1) /\ UNCHANGED pc
       ELSE SetIdx(i, 0) /\ Goto(i, "interests")
    /\ UNCHANGED <<req, world, running, args, promise, buffers, stream, responses>>

(* lines 602-621 *)
Interests(i) ==
    /\ running = i /\ pc[i] = "interests"
    /\ Layout(i, RenderInterests(lay[i], args[i]))
    /\ Goto(i, "doc_end")
    /\ UNCHANGED <<req, world, running, args, idx, promise, buffers, stream, responses>>

(* line 623: doc.end() queues the document's bytes; the executor returns  *)
(* and the handler waits on the promise.                                  *)
DocEnd(i) ==
    /\ running = i /\ pc[i] = "doc_end"
    /\ stream' = [stream EXCEPT ![i] =
                    [queue |-> Chunks(lay[i]), state |-> "flowing", errored |-> FALSE]]
    /\ running' = 0
    /\ Goto(i, "await_pdf")
    /\ UNCHANGED <<req, world, args, lay, idx, promise, buffers, responses>>

(* ----------------------- generatePDF: the stream ---------------------- *)
(* line 170: a 'data' event                                               *)
DocData(i) ==
    /\ running = 0 /\ pc[i] = "await_pdf"
    /\ stream[i].state = "flowing" /\ stream[i].queue # << >>
    /\ buffers' = PushChunk(buffers, i, Head(stream[i].queue))
    /\ stream' = [stream EXCEPT ![i].queue = Tail(@)]
    /\ UNCHANGED <<req, world, pc, running, args, lay, idx, promise, responses>>

(* lines 171-174: the 'end' event, after the last chunk                   *)
DocEnded(i) ==
    /\ running = 0 /\ pc[i] = "await_pdf"
    /\ stream[i].state = "flowing" /\ stream[i].queue = << >>
    /\ promise' = [promise EXCEPT ![i] = OnEnd(@, buffers[i])]
    /\ stream' = [stream EXCEPT ![i].state = "ended"]
    /\ UNCHANGED <<req, world, pc, running, args, lay, idx, buffers, responses>>

(* line 175: an 'error' event while the document is being written         *)
DocError(i) ==
    /\ running = 0 /\ pc[i] = "await_pdf"
    /\ stream[i].state = "flowing" /\ ~stream[i].errored
    /\ promise' = [promise EXCEPT ![i] = OnError(@, buffers[i])]
    /\ stream' = [stream EXCEPT ![i].errored = TRUE]
    /\ UNCHANGED <<req, world, pc, running, args, lay, idx, buffers, responses>>

(* lines 127-159: the await completes: success response, or the catch     *)
Resume(i) ==
    /\ running = 0 /\ pc[i] = "await_pdf"
    /\ promise[i].state \in {"resolved", "rejected"}
    /\ IF promise[i].state = "resolved"
       THEN Respond(i, Success(promise[i].value))
       ELSE Respond(i, Failure(500))
    /\ Goto(i, "done")
    /\ UNCHANGED <<req, world, running, args, lay, idx, promise, buffers, stream>>

Next ==
    \/ \E i \in Inv : Start(i)
    \/ \E i \in Inv : DbUnauthorized(i)
    \/ \E i \in Inv : DbError(i)
    \/ \E i \in Inv : TalentNotFound(i)
    \/ \E i \in Inv : TalentFound(i)
    \/ \E i \in Inv : SummaryFailed(i)
    \/ \E i \in Inv : SummaryReady(i)
    \/ \E i \in Inv : Header(i)
    \/ \E i \in Inv : Summary(i)
    \/ \E i \in Inv : EducationStart(i)
    \/ \E i \in Inv : EducationStep(i)
    \/ \E i \in Inv : WorkStart(i)
    \/ \E i \in Inv : WorkStep(i)
    \/ \E i \in Inv : ProjectsStart(i)
    \/ \E i \in Inv : ProjectsStep(i)
    \/ \E i \in Inv : Skills(i)
    \/ \E i \in Inv : CertificationsStart(i)
    \/ \E i \in Inv : CertificationsStep(i)
    \/ \E i \in Inv : Interests(i)
    \/ \E i \in Inv : DocEnd(i)
    \/ \E i \in Inv : DocData(i)
    \/ \E i \in Inv : DocEnded(i)
    \/ \E i \in Inv : DocError(i)
    \/ \E i \in Inv : Resume(i)

(* One invocation. *)
Spec == Init /\ [][Next]_vars

(* Two invocations in flight together. *)
SpecPair == InitPair /\ [][Next]_vars

(* ====================================================================== *)
(*          The revision that fetches the talent's career path            *)
(* ====================================================================== *)
(* src/unnamed/part_000 is the handler with one more upstream call, the    *)
(* career-path document of talent.selectedPath, and a header that shows    *)
(* its title. From the summary section on, generatePDF is the same code    *)
(* as in main.js, so the actions of those sections are shared.             *)

(* let careerPath = null *)
NoCareerPath == [fetched |-> FALSE, title |-> Undefined]
(* the document getDocument resolves with *)
CareerPath(title) == [fetched |-> TRUE, title |-> title]

NoTalentPath ==
    [fullname |-> Undefined, email |-> Undefined, skills |-> NoList,
     interests |-> NoList, selectedPath |-> Undefined]

NoArgsPath ==
    [talent |-> NoTalentPath, careerPath |-> NoCareerPath, combinedSkills |-> << >>,
     educationDetails |-> << >>, workExperiences |-> << >>, projects |-> << >>,
     certifications |-> << >>, contactInfo |-> NoContact,
     professionalSummary |-> Undefined]

(* the arguments the handler builds for generatePDF (career path and      *)
(* summary still open)                                                    *)
BuildArgsPath(r, talent) ==
    [talent |-> talent,
     careerPath |-> NoCareerPath,
     combinedSkills |-> CombinedSkills(ExistingSkills(talent), r.additionalSkills.items),
     educationDetails |-> ValidEducation(r.educationDetails.items),
     workExperiences |-> ValidWorkExperience(r.workExperiences.items),
     projects |-> ValidProjects(r.projects.items),
     certifications |-> ValidCertifications(r.certifications.items),
     contactInfo |-> r.contactInfo,
     professionalSummary |-> Undefined]

(* careerPath.title.toLowerCase() in the prompt throws on an undefined    *)
(* title                                                                  *)
PromptThrows(careerPath) == careerPath.fetched /\ ~IsDefined(careerPath.title)

(* the header: name, subtitle if there is a career path, contact line,    *)
(* link row, rule                                                         *)
RenderHeaderPath(L, m) ==
    LET n  == Len(LinkUrls(m))
        l1 == Advance(Draw(Text(L, m.talent.fullname.lines, LineHeight(24)),
                           "name", "Personal Info", 0, LeftMargin, PageWidth,
                           <<ToUpperCase(m.talent.fullname)>>,
                           m.talent.fullname.lines * LineHeight(24), Undefined), 35)
        l2 == IF m.careerPath.fetched
              THEN Advance(Draw(Text(l1, m.careerPath.title.lines, LineHeight(14)),
                                "career", "Personal Info", 0, LeftMargin, PageWidth,
                                <<m.careerPath.title>>,
                                m.careerPath.title.lines * LineHeight(14), Undefined), 25)
              ELSE l1
        l3 == IF ContactParts(m) # << >>
              THEN Advance(Draw(Text(l2, 1, LineHeight(11)),
                                "contact", "Personal Info", 0, LeftMargin, PageWidth,
                                ContactParts(m), LineHeight(11), Undefined), 18)
              ELSE l2
        l4 == IF n > 0
              THEN Advance(HeaderLinks(l3, m, 1,
                                       LeftMargin + (PageWidth - (n - 1) * 80) \div 2), 18)
              ELSE l3
        l5 == Advance(l4, 10)
        l6 == Draw(l5, "rule", "Personal Info", 0, LeftMargin, PageWidth, << >>, 1, Undefined)
    IN Advance(l6, 25)

(* ------------------------- the inputs explored ------------------------ *)
PathId == Str("path-1", 1)

TalentOnPath ==
    [fullname |-> Str("Ada Lovelace", 1), email |-> Str("ada@example.org", 1),
     skills |-> List(<<Go, SQL>>),
     interests |-> List(<<Str("chess", 1), Str("hiking", 1)>>), selectedPath |-> PathId]
TalentOffPath == [TalentOnPath EXCEPT !.selectedPath = Undefined]
TalentEmptyPath == [TalentOnPath EXCEPT !.email = Undefined, !.selectedPath = EmptyStr]
TalentOnPathNoEmail == [TalentOnPath EXCEPT !.email = Undefined]
TalentOnPathNoName == [TalentOnPath EXCEPT !.fullname = Undefined]
PathTalents ==
    {TalentOnPath, TalentOffPath, TalentEmptyPath, TalentOnPathNoEmail, TalentOnPathNoName}

CareerPaths ==
    {CareerPath(Str("Data Engineer", 1)),
     CareerPath(Str("Machine Learning Engineer for Embedded Systems", 2)),
     CareerPath(Undefined)}

InputPath(talentId, entries, contactInfo, documents, careerPath) ==
    [req |-> [talentId |-> talentId, additionalSkills |-> List(<<Rust>>),
              educationDetails |-> List(entries.e), workExperiences |-> List(entries.w),
              projects |-> List(entries.p), certifications |-> List(entries.c),
              contactInfo |-> contactInfo],
     world |-> [documents |-> documents, summary |-> Padded(Str("summary", 3)),
                careerPath |-> careerPath]]

NoEntries == [e |-> << >>, w |-> << >>, p |-> << >>, c |-> << >>]
SomeEntries ==
    [e |-> <<EduFull, EduBare>>, w |-> <<ExpFull, ExpTall>>, p |-> <<ProjFull, ProjPlain>>,
     c |-> <<CertFull, CertPlain>>]

PathInputs ==
    {InputPath(TalentId, n, c, d, cp) :
        n \in {NoEntries, SomeEntries},
        c \in Contacts,
        d \in {<< >>} \cup {<<x>> : x \in PathTalents},
        cp \in CareerPaths}
    \cup {InputPath(Undefined, NoEntries, NoContact, <<TalentOnPath>>,
                    CareerPath(Str("Data Engineer", 1)))}

InitPath ==
    /\ \E in \in PathInputs :
          /\ req = [i \in Inv |-> in.req]
          /\ world = [i \in Inv |-> in.world]
    /\ pc = [i \in Inv |-> IF i = 1 THEN "start" ELSE "off"]
    /\ running = 0
    /\ args = [i \in Inv |-> NoArgsPath]
    /\ lay = [i \in Inv |-> StartLayout]
    /\ idx = [i \in Inv |-> 0]
    /\ promise = [i \in Inv |-> NoPromise]
    /\ buffers = [i \in Inv |-> << >>]
    /\ stream = [i \in Inv |-> NoStream]
    /\ responses = [i \in Inv |-> << >>]

(* ------------------------------ handler ------------------------------- *)
(* lines 62-74: the talent is found; its career path is requested if it   *)
(* has a selectedPath, otherwise the summary is requested at once         *)
TalentFoundPath(i) ==
    /\ running = 0 /\ pc[i] = "await_db"
    /\ Len(world[i].documents) > 0
    /\ args' = [args EXCEPT ![i] = BuildArgsPath(req[i], world[i].documents[1])]
    /\ IF Truthy(world[i].documents[1].selectedPath)
       THEN Goto(i, "await_path")
       ELSE Goto(i, "await_llm")
    /\ UNCHANGED <<req, world, running, lay, idx, promise, buffers, stream, responses>>

(* lines 75-76, 84-194: getDocument resolves; the prompt is built and the *)
(* summary requested, or building the prompt throws (caught at 226-232)   *)
PathFetched(i) ==
    /\ running = 0 /\ pc[i] = "await_path"
    /\ args' = [args EXCEPT ![i].careerPath = world[i].careerPath]
    /\ IF PromptThrows(world[i].careerPath)
       THEN Goto(i, "done") /\ Respond(i, Failure(500))
       ELSE Goto(i, "await_llm") /\ UNCHANGED responses
    /\ UNCHANGED <<req, world, running, lay, idx, promise, buffers, stream>>

(* variant: the failure of getDocument left to the outer catch            *)
PathFailedFatal(i) ==
    /\ running = 0 /\ pc[i] = "await_path"
    /\ Goto(i, "done") /\ Respond(i, Failure(500))
    /\ UNCHANGED <<req, world, running, args, lay, idx, promise, buffers, stream>>

(* lines 77-80, 84-194: getDocument rejects; the error is logged and the  *)
(* handler goes on with careerPath still null                             *)
PathFailed(i) ==
    /\ running = 0 /\ pc[i] = "await_path"
    /\ Goto(i, "await_llm")
    /\ UNCHANGED <<req, world, running, args, lay, idx, promise, buffers, stream, responses>>

(* lines 194-209, 237-252: the summary arrives, trimmed, and generatePDF  *)
(* is called                                                              *)
SummaryReadyPath(i) ==
    /\ running = 0 /\ pc[i] = "await_llm"
    /\ args' = [args EXCEPT ![i].professionalSummary = Trim(world[i].summary)]
    /\ promise' = [promise EXCEPT ![i] = [state |-> "pending", value |-> << >>]]
    /\ buffers' = [buffers EXCEPT ![i] = NewBuffers(i)]
    /\ lay' = [lay EXCEPT ![i] = [StartLayout EXCEPT !.y = StartY(i)]]
    /\ running' = i
    /\ Goto(i, "header")
    /\ UNCHANGED <<req, world, idx, stream, responses>>

(* lines 275-349; an exception in the executor rejects the promise        *)
HeaderPath(i) ==
    /\ running = i /\ pc[i] = "header"
    /\ IF HeaderThrows(args[i])
       THEN /\ promise' = [promise EXCEPT ![i] = Reject(@)]
            /\ running' = 0
            /\ Goto(i, "await_pdf")
            /\ UNCHANGED lay
       ELSE /\ Layout(i, RenderHeaderPath(lay[i], args[i]))
            /\ Goto(i, "summary")
            /\ UNCHANGED <<promise, running>>
    /\ UNCHANGED <<req, world, args, idx, buffers, stream, responses>>

NextPath ==
    \/ \E i \in Inv : Start(i)
    \/ \E i \in Inv : DbUnauthorized(i)
    \/ \E i \in Inv : DbError(i)
    \/ \E i \in Inv : TalentNotFound(i)
    \/ \E i \in Inv : TalentFoundPath(i)
    \/ \E i \in Inv : PathFetched(i)
    \/ \E i \in Inv : PathFailed(i)
    \/ \E i \in Inv : SummaryFailed(i)
    \/ \E i \in Inv : SummaryReadyPath(i)
    \/ \E i \in Inv : HeaderPath(i)
    \/ \E i \in Inv : Summary(i)
    \/ \E i \in Inv : EducationStart(i)
    \/ \E i \in Inv : EducationStep(i)
    \/ \E i \in Inv : WorkStart(i)
    \/ \E i \in Inv : WorkStep(i)
    \/ \E i \in Inv : ProjectsStart(i)
    \/ \E i \in Inv : ProjectsStep(i)
    \/ \E i \in Inv : Skills(i)
    \/ \E i \in Inv : CertificationsStart(i)
    \/ \E i \in Inv : CertificationsStep(i)
    \/ \E i \in Inv : Interests(i)
    \/ \E i \in Inv : DocEnd(i)
    \/ \E i \in Inv : DocData(i)
    \/ \E i \in Inv : DocEnded(i)
    \/ \E i \in Inv : DocError(i)
    \/ \E i \in Inv : Resume(i)

(* One invocation of the revision with a career path. *)
SpecPath == InitPath /\ [][NextPath]_vars

(* ====================================================================== *)
(*                               Properties                               *)
(* ====================================================================== *)
Blocks(i) == {k \in DOMAIN lay[i].draws : lay[i].draws[k].kind # "break"}
LaidOut(i) == pc[i] \in {"doc_end", "await_pdf", "done"} /\ promise[i].state # "none"
                  /\ ~HeaderThrows(args[i])
Built(i) == args[i].talent # NoTalent

(* C1: every drawn block (text line, paragraph, bullet, rule) has          *)
(* top offset + measured height <= 750 at the moment it is placed.         *)
C1_PageBreakInvariant ==
    \A i \in Inv : \A k \in Blocks(i) :
        lay[i].draws[k].y + lay[i].draws[k].h <= PageThreshold

(* C2: a work-experience description that does not fit below the cursor    *)
(* (offset + height > 750) is preceded by a page break and is placed at    *)
(* the top margin of the new page.                                         *)
C2_BreakBeforeLongDescription ==
    \A i \in Inv : \A k \in Blocks(i) :
        LET d == lay[i].draws[k]
        IN (d.kind = "paragraph" /\ d.sec = "Work Experience"
              /\ d.y + d.h > PageThreshold)
           => (k > 1 /\ lay[i].draws[k - 1].kind = "break" /\ d.y = TopMargin)

FirstIndex(c, x) == CHOOSE n \in DOMAIN c : c[n] = x /\ \A q \in 1..(n - 1) : c[q] # x

(* C3: the combined skill list holds each distinct value of                *)
(* existingSkills ++ additionalSkills exactly once, in order of first      *)
(* occurrence; a missing talent.skills counts as the empty list.           *)
C3_SkillUnion ==
    /\ CombinedSkills(<<Go, SQL>>, <<SQL, Rust>>) = <<Go, SQL, Rust>>
    /\ \A i \in Inv : Built(i) =>
          LET t == world[i].documents[1]
              c == (IF t.skills.def THEN t.skills.items ELSE << >>)
                      \o req[i].additionalSkills.items
              r == args[i].combinedSkills
          IN /\ Range(r) = Range(c)
             /\ \A j, k \in DOMAIN r :
                   j < k => r[j] # r[k] /\ FirstIndex(c, r[j]) < FirstIndex(c, r[k])

C3_Witness ==
    \E i \in Inv :
        /\ Built(i)
        /\ world[i].documents[1].skills.items = <<Go, SQL>>
        /\ req[i].additionalSkills.items = <<SQL, Rust>>
        /\ args[i].combinedSkills = <<Go, SQL, Rust>>

Missing(s) == s.name = "undefined" \/ s.lines = 0
Dropped(i, e, f1, f2, passed) ==
    (~e.obj \/ Missing(f1) \/ Missing(f2)) =>
        /\ e \notin Range(passed)
        /\ \A k \in Blocks(i) : \A f \in {f1, f2} :
              ~Missing(f) => \A n \in DOMAIN lay[i].draws[k].text :
                                 lay[i].draws[k].text[n].name # f.name

(* C4: an entry with a required field absent or empty is not passed to     *)
(* generatePDF and nothing of it is drawn, whatever its other fields.      *)
C4_InvalidEntriesDropped ==
    \A i \in Inv : Built(i) =>
        /\ \A e \in Range(req[i].educationDetails.items) :
              Dropped(i, e, e.degree, e.institution, args[i].educationDetails)
        /\ \A e \in Range(req[i].workExperiences.items) :
              Dropped(i, e, e.company, e.position, args[i].workExperiences)
        /\ \A e \in Range(req[i].projects.items) :
              Dropped(i, e, e.title, e.description, args[i].projects)
        /\ \A e \in Range(req[i].certifications.items) :
              Dropped(i, e, e.title, e.issuer, args[i].certifications)

C4_Witness ==
    \E i \in Inv :
        /\ pc[i] = "done" /\ Len(responses[i]) = 1 /\ responses[i][1].success
        /\ EduNoInstitution \in Range(req[i].educationDetails.items)
        /\ Len(args[i].educationDetails) = 2
        /\ \E k \in Blocks(i) : lay[i].draws[k].sec = "Education"

SectionEmpty(i, at) ==
    \/ at = "summary" /\ args[i].professionalSummary.lines = 0
    \/ at = "education" /\ args[i].educationDetails = << >>
    \/ at = "work" /\ args[i].workExperiences = << >>
    \/ at = "projects" /\ args[i].projects = << >>
    \/ at = "skills" /\ args[i].combinedSkills = << >>
    \/ at = "certifications" /\ args[i].certifications = << >>
    \/ at = "interests" /\ args[i].talent.interests.items = << >>

SectionAt(sec) ==
    CASE sec = "Professional Summary" -> "summary"
      [] sec = "Education" -> "education"
      [] sec = "Work Experience" -> "work"
      [] sec = "Projects" -> "projects"
      [] sec = "Skills" -> "skills"
      [] sec = "Certifications" -> "certifications"
      [] sec = "Interests" -> "interests"
      [] OTHER -> "header"

(* C5: a section with no data (no valid entries, no skills, no interests,  *)
(* a summary empty after trimming) draws nothing and fires no page break:  *)
(* its step leaves the cursor, the page and the draw list as they were,    *)
(* and no block of that section is ever in the document.                  *)
C5_EmptySectionOmitted ==
    /\ [](\A i \in Inv : \A k \in Blocks(i) :
             ~SectionEmpty(i, SectionAt(lay[i].draws[k].sec)))
    /\ [][\A i \in Inv :
             (pc'[i] # pc[i] /\ SectionEmpty(i, pc[i])) => lay'[i] = lay[i]]_vars

C5_Witness ==
    \E i \in Inv :
        /\ pc[i] = "work" /\ running = i
        /\ args[i].professionalSummary = Blank
        /\ args[i].educationDetails = << >>
        /\ Len(lay[i].draws) = 6 /\ lay[i].y = 153

MinimalModel(i) ==
    /\ args[i].professionalSummary.lines = 0
    /\ args[i].educationDetails = << >> /\ args[i].workExperiences = << >>
    /\ args[i].projects = << >> /\ args[i].certifications = << >>
    /\ args[i].combinedSkills = << >>
    /\ args[i].talent.interests.items = << >>
    /\ ~Truthy(args[i].contactInfo.linkedin) /\ ~Truthy(args[i].contactInfo.github)
    /\ ~Truthy(args[i].contactInfo.portfolio)

(* C6: with no summary, entries, skills, interests or links, the document  *)
(* is one page holding the upper-cased name, the contact line (with the    *)
(* email when there is one) and the header rule, and no page break fires.  *)
C6_MinimalDocument ==
    \A i \in Inv : (LaidOut(i) /\ MinimalModel(i)) =>
        LET d == lay[i].draws
            email == args[i].talent.email
            phone == args[i].contactInfo.phone
            contact == Truthy(email) \/ Truthy(phone)
            n == IF contact THEN 3 ELSE 2
        IN /\ lay[i].page = 1
           /\ Len(d) = n
           /\ \A k \in DOMAIN d : d[k].page = 1 /\ d[k].sec = "Personal Info"
           /\ d[1].kind = "name" /\ d[1].y = 50
           /\ d[1].text = <<[args[i].talent.fullname EXCEPT !.up = TRUE]>>
           /\ contact => /\ d[2].kind = "contact" /\ d[2].y = 85
                         /\ (Truthy(email) <=> email \in Range(d[2].text))
           /\ d[n].kind = "rule" /\ d[n].y = 110

C6_Witness ==
    \E i \in Inv :
        /\ pc[i] = "done" /\ Len(responses[i]) = 1 /\ responses[i][1].success
        /\ MinimalModel(i)
        /\ Truthy(args[i].talent.email) /\ ~Truthy(args[i].contactInfo.phone)
        /\ Len(lay[i].draws) = 3

C8_AllOrNothing ==
    \A i \in Inv :
        /\ (stream[i].errored \/ (pc[i] \in {"await_pdf", "done"} /\ HeaderThrows(args[i])
                                    /\ promise[i].state # "none"))
              => promise[i].state = "rejected"
        /\ (promise[i].state = "rejected" /\ pc[i] = "done")
              => /\ Len(responses[i]) = 1
                 /\ ~responses[i][1].success
                 /\ responses[i][1].status = 500
                 /\ responses[i][1].pdfData = [encoding |-> "none", data |-> << >>]

C8_Witness ==
    \E i \in Inv :
        /\ pc[i] = "done" /\ stream[i].errored
        /\ buffers[i] # << >>
        /\ Len(responses[i]) = 1 /\ responses[i][1].status = 500

IsPrefix(a, b) == Len(a) <= Len(b) /\ \A k \in DOMAIN a : a[k] = b[k]

(* C9: with two invocations interleaved at their await points, each        *)
(* render's cursor, draw list, chunk buffer and bytes are those of the     *)
(* same render run alone.                                                  *)
C9_IndependentRenders ==
    \A i \in Inv : LaidOut(i) =>
        /\ lay[i] = RenderAlone(args[i])
        /\ IsPrefix(buffers[i], Chunks(RenderAlone(args[i])))
        /\ promise[i].state = "resolved"
              => promise[i].value = Concat(Chunks(RenderAlone(args[i])))

C9_Witness ==
    /\ pc[1] = "await_pdf" /\ pc[2] = "await_pdf"
    /\ args[1] # args[2]
    /\ buffers[1] # << >> /\ buffers[2] # << >>
    /\ stream[1].queue # << >> /\ stream[2].queue # << >>

Rendered(i) == {lay[i].draws[k].sec : k \in Blocks(i)}

(* C10: metadata.sections of a successful response names exactly the       *)
(* sections rendered in that document.                                     *)
C10_SectionsRendered ==
    \A i \in Inv :
        (pc[i] = "done" /\ Len(responses[i]) = 1 /\ responses[i][1].success)
            => Range(responses[i][1].sections) = Rendered(i)

Breaks(i) == {k \in DOMAIN lay[i].draws : lay[i].draws[k].kind = "break"}

(* C11: the finished document has as many pages as the cursor's page       *)
(* index, which is one plus the number of breaks checkPageBreak fired;     *)
(* nothing else creates a page.                                            *)
C11_PageCount ==
    \A i \in Inv : LaidOut(i) =>
        /\ lay[i].page = 1 + Cardinality(Breaks(i))
        /\ lay[i].docPages = lay[i].page

EntryDraws(i, sec, e, kind) ==
    {k \in Blocks(i) : /\ lay[i].draws[k].sec = sec /\ lay[i].draws[k].ent = e
                        /\ lay[i].draws[k].kind = kind}
OneDraw(i, sec, e, kind) == lay[i].draws[CHOOSE k \in EntryDraws(i, sec, e, kind) : TRUE]
Count(i, sec, e, kind) == Cardinality(EntryDraws(i, sec, e, kind))
Present(s) == s.name # "undefined" /\ (s.lines > 0 \/ s.pad)
PresentTrimmed(s) == s.name # "undefined" /\ s.lines > 0
NonBlank(l) == Cardinality({n \in DOMAIN l.items : PresentTrimmed(l.items[n])})

(* C12: for validated entries with any of location, startDate, endDate,    *)
(* description, technologies, link, details, date absent, and with phone   *)
(* and links absent, generatePDF does not throw; each entry shows its      *)
(* title and subtitle, and a sub-line is missing exactly when its field    *)
(* is absent (the date line when both dates are).                          *)
C12_OptionalFieldsOmitted ==
    \A i \in Inv : LaidOut(i) =>
        LET m == args[i] IN
        /\ promise[i].state = "rejected" => stream[i].errored
        /\ \A e \in DOMAIN m.educationDetails :
              LET edu == m.educationDetails[e] IN
              /\ Count(i, "Education", e, "title") = 1
              /\ Count(i, "Education", e, "subtitle") = 1
              /\ edu.institution \in Range(OneDraw(i, "Education", e, "subtitle").text)
              /\ Present(edu.location)
                    <=> edu.location \in Range(OneDraw(i, "Education", e, "subtitle").text)
              /\ Count(i, "Education", e, "date")
                    = IF Present(edu.startDate) \/ Present(edu.endDate) THEN 1 ELSE 0
        /\ \A e \in DOMAIN m.workExperiences :
              LET exp == m.workExperiences[e] IN
              /\ Count(i, "Work Experience", e, "title") = 1
              /\ Count(i, "Work Experience", e, "subtitle") = 1
              /\ Present(exp.location)
                    <=> exp.location \in Range(OneDraw(i, "Work Experience", e, "subtitle").text)
              /\ Count(i, "Work Experience", e, "date")
                    = IF Present(exp.startDate) \/ Present(exp.endDate) THEN 1 ELSE 0
              /\ Count(i, "Work Experience", e, "paragraph")
                    = IF PresentTrimmed(exp.description) THEN 1 ELSE 0
        /\ \A e \in DOMAIN m.projects :
              LET project == m.projects[e] IN
              /\ Count(i, "Projects", e, "title") = 1
              /\ PresentTrimmed(project.link)
                    <=> OneDraw(i, "Projects", e, "title").link.name # "undefined"
              /\ Count(i, "Projects", e, "paragraph") = 1
              /\ Count(i, "Projects", e, "tech")
                    = IF PresentTrimmed(project.technologies) THEN 1 ELSE 0
              /\ Count(i, "Projects", e, "bullet") = NonBlank(project.details)
        /\ \A e \in DOMAIN m.certifications :
              LET cert == m.certifications[e] IN
              /\ Count(i, "Certifications", e, "title") = 1
              /\ PresentTrimmed(cert.link)
                    <=> OneDraw(i, "Certifications", e, "title").link.name # "undefined"
              /\ Count(i, "Certifications", e, "subtitle") = 1
              /\ Present(cert.date)
                    <=> cert.date \in Range(OneDraw(i, "Certifications", e, "subtitle").text)
        /\ Count(i, "Personal Info", 0, "name") = 1
        /\ Count(i, "Personal Info", 0, "link")
              = Cardinality({f \in {"linkedin", "github", "portfolio"} :
                               Present(m.contactInfo[f])})
        /\ Count(i, "Personal Info", 0, "contact")
              = IF \E f \in DOMAIN m.contactInfo : Present(m.contactInfo[f])
                   THEN 1 ELSE IF Present(m.talent.email) THEN 1 ELSE 0
        /\ Present(m.contactInfo.phone)
              => m.contactInfo.phone \in Range(OneDraw(i, "Personal Info", 0, "contact").text)

C12_Witness ==
    \E i \in Inv :
        /\ pc[i] = "done" /\ Len(responses[i]) = 1 /\ responses[i][1].success
        /\ args[i].contactInfo = NoContact
        /\ args[i].workExperiences = <<ExpBare, ExpFull>>
        /\ Count(i, "Work Experience", 1, "date") = 0
        /\ Count(i, "Work Experience", 1, "paragraph") = 0
        /\ Count(i, "Work Experience", 2, "paragraph") = 1

Invoked(i) == promise[i].state # "none"
Upstream(i) == pc[i] \in {"start", "await_db", "await_llm"}

(* C13: generatePDF is invoked only once talentId was present, the record  *)
(* was found and the summary returned; a 400, 403 or 404 answer, and a     *)
(* 500 answer to an upstream failure, is success:false with no render      *)
(* started.                                                                *)
C13_RenderAfterUpstream ==
    /\ [](\A i \in Inv :
            /\ Invoked(i) =>
                  /\ Truthy(req[i].talentId)
                  /\ world[i].documents # << >>
                  /\ args[i].talent = world[i].documents[1]
                  /\ args[i].professionalSummary = world[i].summary
            /\ ~Invoked(i) => lay[i] = StartLayout /\ stream[i] = NoStream
                               /\ buffers[i] = << >>
            /\ Upstream(i) => ~Invoked(i) /\ responses[i] = << >>
            /\ (pc[i] = "done" /\ ~Invoked(i)) =>
                  /\ Len(responses[i]) = 1
                  /\ ~responses[i][1].success
                  /\ responses[i][1].status \in {400, 403, 404, 500}
                  /\ responses[i][1].status = 400 <=> ~Truthy(req[i].talentId)
                  /\ responses[i][1].status = 404 => world[i].documents = << >>
            /\ \A k \in DOMAIN responses[i] :
                  responses[i][k].status \in {400, 403, 404} => ~Invoked(i))
    /\ [][\A i \in Inv : (~Invoked(i) /\ promise'[i].state # "none")
                              => pc[i] = "await_llm" /\ pc'[i] = "header"]_vars

C13_Witness ==
    \E i \in Inv :
        /\ pc[i] = "done" /\ ~Invoked(i)
        /\ Truthy(req[i].talentId) /\ world[i].documents # << >>
        /\ responses[i] = <<Failure(500)>>

(* the space the code reserves in front of a heading, title or bullet      *)
Reserve(d) ==
    CASE d.kind = "heading" /\ d.sec \in {"Education", "Work Experience", "Projects"} -> 100
      [] d.kind = "heading" /\ d.sec \in {"Professional Summary", "Certifications"} -> 80
      [] d.kind = "heading" /\ d.sec \in {"Skills", "Interests"} -> 60
      [] d.kind = "title" /\ d.sec = "Education" -> 60
      [] d.kind = "title" /\ d.sec \in {"Work Experience", "Projects"} -> 80
      [] d.kind = "title" /\ d.sec = "Certifications" -> 50
      [] d.kind = "bullet" -> 30
      [] OTHER -> 0
Reserved(d) == d.kind \in {"heading", "title", "bullet"}

(* C14: checkPageBreak(r) fires exactly when offset + r > 750 (not at      *)
(* 750); when it fires the page index grows by one and the next block is   *)
(* placed at offset 50 of the new page; when it does not fire the block    *)
(* is placed at the unchanged offset on the unchanged page.                *)
C14_BreakIffOverflow ==
    \A i \in Inv : \A k \in DOMAIN lay[i].draws :
        LET d == lay[i].draws
            prev == IF k = 1 THEN 1 ELSE d[k - 1].page
        IN /\ d[k].kind = "break" =>
                 /\ d[k].y + d[k].h > PageThreshold
                 /\ d[k].page = prev + 1
                 /\ k < Len(d)
                 /\ Reserved(d[k + 1]) /\ d[k].h = Reserve(d[k + 1])
                 /\ d[k + 1].y = TopMargin /\ d[k + 1].page = d[k].page
           /\ (Reserved(d[k]) /\ (k = 1 \/ d[k - 1].kind # "break")) =>
                 /\ d[k].y + Reserve(d[k]) <= PageThreshold
                 /\ d[k].page = prev
           /\ d[k].kind # "break" => d[k].page = prev

C14_Witness ==
    \E i \in Inv : \E k \in DOMAIN lay[i].draws : \E j \in DOMAIN lay[i].draws :
        /\ pc[i] = "done"
        /\ lay[i].draws[k].kind = "break"
        /\ Reserved(lay[i].draws[j]) /\ j > 1 /\ lay[i].draws[j - 1].kind # "break"
        /\ lay[i].draws[j].y + Reserve(lay[i].draws[j]) = PageThreshold

(* C15: on one page a block starts at or below the bottom of the block     *)
(* placed before it, also when a title, subtitle or technologies line      *)
(* wraps (the header's link labels share one line, side by side).          *)
C15_NoOverlap ==
    \A i \in Inv : \A k \in Blocks(i) :
        LET d == lay[i].draws IN
        (/\ k < Len(d) /\ d[k + 1].kind # "break" /\ d[k + 1].page = d[k].page
         /\ ~(d[k].kind = "link" /\ d[k + 1].kind = "link"))
            => d[k + 1].y >= d[k].y + d[k].h

Measured(d) == d.kind \in {"paragraph", "bullet"}

(* C16: a measured block taller than a full page (height > 750 - 50) is    *)
(* placed starting at the top margin of a page.                           *)
C16_TallBlockAtTop ==
    \A i \in Inv : \A k \in Blocks(i) :
        LET d == lay[i].draws[k] IN
        (Measured(d) /\ d.h > PageThreshold - TopMargin)
            => d.y = TopMargin

EntrySections == {"Education", "Work Experience", "Projects", "Certifications"}

(* C17: in Education, Work Experience, Projects and Certifications the     *)
(* reserve of the first entry fires no break: the first entry's title is   *)
(* the block placed right after the heading, on the heading's page, 20     *)
(* below it.                                                               *)
C17_HeadingNotOrphaned ==
    \A i \in Inv : \A k \in Blocks(i) :
        LET d == lay[i].draws IN
        /\ (d[k].kind = "title" /\ d[k].ent = 1 /\ d[k].sec \in EntrySections) =>
              /\ k > 1
              /\ d[k - 1].kind = "heading" /\ d[k - 1].sec = d[k].sec
              /\ d[k - 1].page = d[k].page
              /\ d[k].y = d[k - 1].y + 20
        /\ (d[k].kind = "heading" /\ d[k].sec \in EntrySections /\ k < Len(d)) =>
              d[k + 1].kind = "title" /\ d[k + 1].ent = 1

C17_Witness ==
    \E i \in Inv : \E k \in Blocks(i) :
        LET d == lay[i].draws IN
        /\ pc[i] = "done"
        /\ d[k].kind = "heading" /\ d[k].sec \in EntrySections
        /\ d[k].y + 100 = PageThreshold
        /\ k < Len(d) /\ d[k + 1].kind = "title" /\ d[k + 1].page = d[k].page

Rank(sec) ==
    CASE sec = "Personal Info" -> 1
      [] sec = "Professional Summary" -> 2
      [] sec = "Education" -> 3
      [] sec = "Work Experience" -> 4
      [] sec = "Projects" -> 5
      [] sec = "Skills" -> 6
      [] sec = "Certifications" -> 7
      [] sec = "Interests" -> 8
      [] OTHER -> 0

(* C18: the blocks of a document appear in the order Header, Summary,      *)
(* Education, Work Experience, Projects, Skills, Certifications,           *)
(* Interests; the name is the first block, at the top margin of page 1;    *)
(* and whatever a step places first (block or page break) is placed at     *)
(* the cursor offset the step before it left.                              *)
C18_FixedSectionOrder ==
    /\ [](\A i \in Inv :
            LET d == lay[i].draws IN
            /\ \A j, k \in Blocks(i) :
                  j < k => /\ Rank(d[j].sec) >= 1
                           /\ Rank(d[j].sec) <= Rank(d[k].sec)
            /\ d # << >> => /\ d[1].kind = "name" /\ d[1].sec = "Personal Info"
                             /\ d[1].y = TopMargin /\ d[1].page = 1)
    /\ [][\A i \in Inv :
             Len(lay'[i].draws) > Len(lay[i].draws)
                => lay'[i].draws[Len(lay[i].draws) + 1].y = lay[i].y]_vars

C18_Witness ==
    \E i \in Inv :
        /\ pc[i] = "done" /\ Len(responses[i]) = 1 /\ responses[i][1].success
        /\ {Rank(sec) : sec \in Rendered(i)} = 1..8
        /\ lay[i].page > 1

SectionBlocks(i, sec) == {k \in Blocks(i) : lay[i].draws[k].sec = sec}
LastBlock(i, sec) ==
    CHOOSE k \in SectionBlocks(i, sec) : \A j \in SectionBlocks(i, sec) : j <= k

(* C19: each of the eight sections, when rendered, ends with exactly one   *)
(* section separator: its last block is the separator rule, drawn from     *)
(* the left margin across the usable width, and the cursor is left 20      *)
(* below it.                                                               *)
C19_SectionEndsWithSeparator ==
    \A i \in Inv : LaidOut(i) =>
        \A sec \in Rendered(i) :
            LET d == lay[i].draws
                k == LastBlock(i, sec)
            IN /\ d[k].kind = "separator"
               /\ Cardinality({j \in SectionBlocks(i, sec) : d[j].kind = "separator"}) = 1
               /\ d[k].x = LeftMargin /\ d[k].w = PageWidth
               /\ IF k < Len(d) THEN d[k + 1].y = d[k].y + 20
                                ELSE lay[i].y = d[k].y + 20

Entries(i, sec) ==
    CASE sec = "Education" -> args[i].educationDetails
      [] sec = "Work Experience" -> args[i].workExperiences
      [] sec = "Projects" -> args[i].projects
      [] sec = "Certifications" -> args[i].certifications
Spacing(sec) == IF sec \in {"Education", "Certifications"} THEN 10 ELSE 15

(* the cursor offset after the last block d of an entry, spacing aside     *)
EntryEnd(d) ==
    d.y + (CASE d.kind = "date" /\ d.sec = "Education" -> 18
             [] d.kind = "date" /\ d.sec = "Work Experience" -> 16
             [] d.kind = "subtitle" /\ d.sec = "Education" -> 14 + 8
             [] d.kind = "subtitle" /\ d.sec # "Education" -> 14
             [] d.kind = "paragraph" -> d.h + 10
             [] d.kind = "bullet" -> d.h + 5
             [] OTHER -> 16)
EntryBlocks(i, sec, e) ==
    {k \in Blocks(i) : lay[i].draws[k].sec = sec /\ lay[i].draws[k].ent = e}
LastOfEntry(i, sec, e) ==
    CHOOSE k \in EntryBlocks(i, sec, e) : \A j \in EntryBlocks(i, sec, e) : j <= k
EntryDone(i, sec, e) ==
    /\ EntryBlocks(i, sec, e) # {}
    /\ LastOfEntry(i, sec, e) < Len(lay[i].draws)
    /\ lay[i].draws[LastOfEntry(i, sec, e) + 1].sec # sec
          \/ lay[i].draws[LastOfEntry(i, sec, e) + 1].ent # e

(* C20: in a section of n entries the inter-entry spacing (10 for          *)
(* education and certifications, 15 for experience and projects) follows   *)
(* each entry but the last: entry e < n is followed, spacing later, by     *)
(* the next entry's reserve and title; entry n is followed directly by     *)
(* the section separator.                                                  *)
C20_InterEntrySpacing ==
    \A i \in Inv : \A sec \in EntrySections : \A e \in DOMAIN Entries(i, sec) :
        EntryDone(i, sec, e) =>
            LET d == lay[i].draws
                k == LastOfEntry(i, sec, e)
                n == Len(Entries(i, sec))
            IN IF e < n
               THEN /\ d[k + 1].kind \in {"break", "title"}
                    /\ d[k + 1].y = EntryEnd(d[k]) + Spacing(sec)
               ELSE /\ d[k + 1].kind = "separator"
                    /\ d[k + 1].y = EntryEnd(d[k]) + 15

C20_Witness ==
    \E i \in Inv :
        /\ pc[i] = "done" /\ Len(responses[i]) = 1 /\ responses[i][1].success
        /\ Len(args[i].certifications) = 2 /\ Len(args[i].workExperiences) = 2
        /\ EntryDone(i, "Certifications", 2) /\ EntryDone(i, "Work Experience", 1)

Complete(e, f1, f2) == e.obj /\ ~Missing(f1) /\ ~Missing(f2)
Nth(S, n) == CHOOSE k \in S : Cardinality({j \in S : j < k}) = n - 1
(* passed holds the entries of items at the index set S, in index order    *)
KeptInOrder(items, S, passed) ==
    /\ Len(passed) = Cardinality(S)
    /\ \A n \in DOMAIN passed : passed[n] = items[Nth(S, n)]
(* the titles of section sec are those of passed, once each, in order      *)
TitlesInOrder(i, sec, titles) ==
    /\ \A n \in DOMAIN titles :
          /\ Count(i, sec, n, "title") = 1
          /\ OneDraw(i, sec, n, "title").text = <<titles[n]>>
    /\ \A j, k \in SectionBlocks(i, sec) :
          (lay[i].draws[j].kind = "title" /\ lay[i].draws[k].kind = "title" /\ j < k)
             => lay[i].draws[j].ent < lay[i].draws[k].ent
    /\ \A k \in SectionBlocks(i, sec) : lay[i].draws[k].ent \in 0..Len(titles)

(* C21: each filter keeps exactly the entries whose two required fields    *)
(* are non-empty after trimming, in input order, each once; and the        *)
(* entries are drawn in that order.                                        *)
C21_FilterKeepsOrder ==
    \A i \in Inv :
        LET r == req[i]
            m == args[i]
            edu == r.educationDetails.items
            exp == r.workExperiences.items
            proj == r.projects.items
            cert == r.certifications.items
        IN /\ Built(i) =>
                /\ KeptInOrder(edu, {k \in DOMAIN edu :
                        Complete(edu[k], edu[k].degree, edu[k].institution)},
                        m.educationDetails)
                /\ KeptInOrder(exp, {k \in DOMAIN exp :
                        Complete(exp[k], exp[k].company, exp[k].position)},
                        m.workExperiences)
                /\ KeptInOrder(proj, {k \in DOMAIN proj :
                        Complete(proj[k], proj[k].title, proj[k].description)},
                        m.projects)
                /\ KeptInOrder(cert, {k \in DOMAIN cert :
                        Complete(cert[k], cert[k].title, cert[k].issuer)},
                        m.certifications)
           /\ LaidOut(i) =>
                /\ TitlesInOrder(i, "Education",
                        [n \in DOMAIN m.educationDetails |-> m.educationDetails[n].degree])
                /\ TitlesInOrder(i, "Work Experience",
                        [n \in DOMAIN m.workExperiences |-> m.workExperiences[n].position])
                /\ TitlesInOrder(i, "Projects",
                        [n \in DOMAIN m.projects |-> m.projects[n].title])
                /\ TitlesInOrder(i, "Certifications",
                        [n \in DOMAIN m.certifications |-> m.certifications[n].title])

C21_Witness ==
    \E i \in Inv :
        /\ pc[i] = "done" /\ Len(responses[i]) = 1 /\ responses[i][1].success
        /\ req[i].educationDetails.items = <<EduFull, EduNoInstitution, EduWrap>>
        /\ args[i].educationDetails = <<EduFull, EduWrap>>
        /\ OneDraw(i, "Education", 2, "title").text = <<EduWrap.degree>>

DateLine(i, sec, e, startDate, endDate) ==
    IF Present(startDate) \/ Present(endDate)
    THEN /\ Count(i, sec, e, "date") = 1
         /\ LET t == OneDraw(i, sec, e, "date").text
            IN /\ Len(t) = 2
               /\ t[1] = IF Present(startDate) THEN startDate ELSE EmptyStr
               /\ t[2] = IF Present(endDate) THEN endDate ELSE Str("Present", 1)
    ELSE Count(i, sec, e, "date") = 0

(* C22: an education or experience entry has a date line exactly when      *)
(* startDate or endDate is present; its left side is the start date, or    *)
(* empty when that is missing, and its right side the end date, or         *)
(* 'Present' when that is missing.                                         *)
C22_DateLine ==
    \A i \in Inv : LaidOut(i) =>
        /\ \A e \in DOMAIN args[i].educationDetails :
              DateLine(i, "Education", e, args[i].educationDetails[e].startDate,
                       args[i].educationDetails[e].endDate)
        /\ \A e \in DOMAIN args[i].workExperiences :
              DateLine(i, "Work Experience", e, args[i].workExperiences[e].startDate,
                       args[i].workExperiences[e].endDate)

C22_Witness ==
    \E i \in Inv :
        /\ pc[i] = "done" /\ Len(responses[i]) = 1 /\ responses[i][1].success
        /\ args[i].educationDetails = <<EduOpen, EduEnded>>
        /\ OneDraw(i, "Education", 1, "date").text = <<Str("2024", 1), Str("Present", 1)>>
        /\ OneDraw(i, "Education", 2, "date").text = <<EmptyStr, Str("2018", 1)>>

TitleOf(i, sec, e, title, link) ==
    /\ Count(i, sec, e, "title") = 1
    /\ LET k == CHOOSE k \in EntryDraws(i, sec, e, "title") : TRUE
           d == lay[i].draws
       IN /\ d[k].text = <<title>>
          /\ d[k].link = IF PresentTrimmed(link) THEN [link EXCEPT !.pad = FALSE]
                                                 ELSE Undefined
          /\ k < Len(d) /\ d[k + 1].kind # "break"
          /\ d[k + 1].y = d[k].y + 16

(* C23: every project and certification title is drawn once: with a link   *)
(* region targeting the trimmed link when the link is non-empty after      *)
(* trimming, and with no link region otherwise; the block after it is      *)
(* placed 16 lower in both cases.                                          *)
C23_TitleLink ==
    \A i \in Inv : LaidOut(i) =>
        /\ \A e \in DOMAIN args[i].projects :
              TitleOf(i, "Projects", e, args[i].projects[e].title, args[i].projects[e].link)
        /\ \A e \in DOMAIN args[i].certifications :
              TitleOf(i, "Certifications", e, args[i].certifications[e].title,
                      args[i].certifications[e].link)

C23_Witness ==
    \E i \in Inv :
        /\ pc[i] = "done" /\ Len(responses[i]) = 1 /\ responses[i][1].success
        /\ args[i].projects = <<ProjFull, ProjBlankLink>>
        /\ OneDraw(i, "Projects", 1, "title").link = Str("https://compiler.example", 1)
        /\ OneDraw(i, "Projects", 2, "title").link = Undefined

(* C24: the rule of every section separator is drawn at an offset of at    *)
(* most 750.                                                               *)
C24_SeparatorOnPage ==
    \A i \in Inv : \A k \in Blocks(i) :
        lay[i].draws[k].kind = "separator" => lay[i].draws[k].y <= PageThreshold

TitleIndex(i, sec, e) == CHOOSE k \in EntryDraws(i, sec, e, "title") : TRUE

(* C25: for education and certification entries the reserve (60, 50)       *)
(* covers the entry's cursor advance without the inter-entry spacing (at   *)
(* most 48, 30): every line of the entry is placed at an offset of at      *)
(* most 750, on the page of the entry's title, and the document adds no    *)
(* page inside the entry.                                                  *)
C25_ReserveCoversEntry ==
    \A i \in Inv : \A sec \in {"Education", "Certifications"} :
        \A e \in DOMAIN Entries(i, sec) :
            EntryDone(i, sec, e) =>
                LET d == lay[i].draws
                    t == d[TitleIndex(i, sec, e)]
                    last == d[LastOfEntry(i, sec, e)]
                IN /\ EntryEnd(last) - t.y <= (IF sec = "Education" THEN 48 ELSE 30)
                   /\ EntryEnd(last) - t.y <= Reserve(t)
                   /\ t.y + Reserve(t) <= PageThreshold
                   /\ \A k \in EntryBlocks(i, sec, e) :
                         /\ d[k].y <= PageThreshold
                         /\ d[k].page = t.page
                         /\ d[k].y + d[k].h <= MaxY

C25_Witness ==
    \E i \in Inv : \E k \in Breaks(i) :
        /\ pc[i] = "done"
        /\ lay[i].draws[k].h = 60
        /\ lay[i].draws[k + 1].sec = "Education" /\ lay[i].draws[k + 1].ent = 2
        /\ EntryDone(i, "Education", 2)
        /\ Count(i, "Education", 2, "date") = 1

(* C26: checkPageBreak never fires at the top margin of an empty page: a   *)
(* break fires below the top margin and is followed at once by a block     *)
(* on the new page, so every page of a finished layout holds a block.      *)
C26_NoBlankPage ==
    \A i \in Inv :
        LET d == lay[i].draws IN
        /\ \A k \in Breaks(i) :
              /\ d[k].y > TopMargin
              /\ k > 1 /\ d[k - 1].kind # "break"
              /\ k < Len(d) /\ d[k + 1].kind # "break" /\ d[k + 1].page = d[k].page
        /\ LaidOut(i) =>
              \A p \in 1..lay[i].page : \E k \in Blocks(i) : d[k].page = p

C26_Witness ==
    \E i \in Inv : \E k \in Breaks(i) :
        /\ pc[i] = "done" /\ Len(responses[i]) = 1 /\ responses[i][1].success
        /\ lay[i].page >= 3
        /\ lay[i].draws[k].h = 30 /\ lay[i].draws[k + 1].kind = "bullet"

BreakCount(L) == Len(SelectSeq(L.draws, LAMBDA d : d.kind = "break"))

(* C27: the cursor offset is never below the top margin (50); blocks are   *)
(* placed at offsets that do not decrease unless a page break lies in      *)
(* between, and a step lowers the offset only if a break fired in it.      *)
C27_OffsetMonotone ==
    /\ [](\A i \in Inv :
            LET d == lay[i].draws IN
            /\ lay[i].y >= TopMargin
            /\ \A k \in DOMAIN d :
                  /\ d[k].y >= TopMargin
                  /\ (k > 1 /\ d[k].kind # "break" /\ d[k - 1].kind # "break")
                        => d[k].y >= d[k - 1].y
                  /\ (k > 1 /\ d[k].kind = "break") => d[k].y >= d[k - 1].y
            /\ d # << >> /\ d[Len(d)].kind # "break" => lay[i].y >= d[Len(d)].y)
    /\ [][\A i \in Inv :
             lay'[i].y < lay[i].y => BreakCount(lay'[i]) > BreakCount(lay[i])]_vars

C27_Witness ==
    \E i \in Inv : \E k \in Breaks(i) :
        /\ pc[i] = "done" /\ Len(responses[i]) = 1 /\ responses[i][1].success
        /\ lay[i].draws[k].y > PageThreshold
        /\ lay[i].draws[k + 1].y = TopMargin
        /\ lay[i].y < lay[i].draws[k].y

Settled(p) == p.state \in {"resolved", "rejected"}

(* C28: the promise of generatePDF settles at most once; it resolves only  *)
(* at the 'end' event, with the concatenation of all chunks received, in   *)
(* emission order; an 'error' event rejects it; doc.end() is called once,  *)
(* after the last section, and the promise is not resolved before it.      *)
C28_SettlesOnce ==
    /\ [](\A i \in Inv :
            /\ promise[i].state = "resolved" =>
                  /\ stream[i].state = "ended" /\ ~stream[i].errored
                  /\ buffers[i] = Chunks(lay[i])
                  /\ promise[i].value = Concat(buffers[i])
            /\ stream[i].errored => promise[i].state = "rejected"
            /\ stream[i].state # "idle" => pc[i] \in {"await_pdf", "done"})
    /\ [][\A i \in Inv :
             /\ Settled(promise[i]) => promise'[i] = promise[i]
             /\ (promise[i].state # "resolved" /\ promise'[i].state = "resolved") =>
                   /\ stream[i].state = "flowing" /\ stream[i].queue = << >>
                   /\ stream'[i].state = "ended"
             /\ (stream[i].state = "idle" /\ stream'[i].state # "idle") =>
                   pc[i] = "doc_end" /\ pc'[i] = "await_pdf"
             /\ stream[i].state # "idle" => stream'[i].state # "idle"
             /\ stream[i].state = "ended" => stream'[i] = stream[i]]_vars

C28_Witness ==
    \E i \in Inv :
        /\ stream[i].errored /\ stream[i].state = "ended"
        /\ promise[i].state = "rejected"
        /\ Len(buffers[i]) >= 2

(* The steps the handler of invocation i takes outside the synchronous body *)
(* of generatePDF: its entry, the continuations of its awaits, the stream   *)
(* events it waits for.                                                     *)
HandlerStep(i) ==
    \/ Start(i)
    \/ DbUnauthorized(i) \/ DbError(i) \/ TalentNotFound(i) \/ TalentFound(i)
    \/ SummaryFailed(i) \/ SummaryReady(i)
    \/ DocData(i) \/ DocEnded(i) \/ DocError(i) \/ Resume(i)

Synchronous(i) == running = i /\ pc[i] \notin {"start", "await_db", "await_llm", "await_pdf", "done", "off"}

(* C29: an invocation sends exactly one response: none while it is still    *)
(* under way (it is then inside generatePDF's synchronous body or has a     *)
(* handler step to take), one when it has finished, never a second; a success *)
(* response carries the bytes generatePDF resolved with, any other is      *)
(* success:false with status 400, 403, 404 or 500 and no pdfData.          *)
C29_ExactlyOneResponse ==
    /\ [](\A i \in Inv :
            /\ Len(responses[i]) <= 1
            /\ pc[i] = "done" <=> Len(responses[i]) = 1
            /\ (pc[i] \notin {"done", "off"} /\ running = 0) => ENABLED HandlerStep(i)
            /\ (pc[i] \notin {"done", "off"} /\ running # 0) =>
                  \E j \in Inv : Synchronous(j)
            /\ \A k \in DOMAIN responses[i] :
                  LET r == responses[i][k] IN
                  /\ r.success <=> promise[i].state = "resolved"
                  /\ r.success => r.status = 200 /\ r.pdfData = Base64(promise[i].value)
                  /\ ~r.success => /\ r.status \in {400, 403, 404, 500}
                                    /\ r.pdfData = NoPdfData)
    /\ [][\A i \in Inv : responses[i] # << >> => responses'[i] = responses[i]]_vars

C29_Witness ==
    \E i \in Inv :
        /\ pc[i] = "done"
        /\ responses[i] = <<Failure(403)>>
        /\ ~Invoked(i)

(* the header has been laid out *)
HeaderDrawn(i) ==
    /\ pc[i] \notin {"start", "await_db", "await_path", "await_llm", "header", "off"}
    /\ promise[i].state # "none" /\ ~HeaderThrows(args[i])

Subtitles(i) == {k \in DOMAIN lay[i].draws : lay[i].draws[k].kind = "career"}
HeaderRules(i) == {k \in DOMAIN lay[i].draws : lay[i].draws[k].kind = "rule"}

(* the offset of the header's rule: 35 below the top for the name, 18 for  *)
(* a contact line, 18 for a link row, 10 above the rule, and extra for a   *)
(* subtitle                                                                *)
RuleOffset(m, extra) ==
    TopMargin + 35 + extra
    + (IF Truthy(m.talent.email) \/ Truthy(m.contactInfo.phone) THEN 18 ELSE 0)
    + (IF Truthy(m.contactInfo.linkedin) \/ Truthy(m.contactInfo.github)
          \/ Truthy(m.contactInfo.portfolio) THEN 18 ELSE 0)
    + 10

(* C30: a failed career-path fetch sends no response and leaves            *)
(* careerPath null, the handler going on to request the summary; the       *)
(* variable is set only by a fetch that resolved; and a header that has    *)
(* been laid out shows the subtitle, right below the name and with the     *)
(* rest of the header 25 lower, exactly when careerPath is set.            *)
C30_CareerPathOptional ==
    /\ [](\A i \in Inv :
            /\ args[i].careerPath.fetched =>
                  /\ Truthy(args[i].talent.selectedPath)
                  /\ args[i].careerPath = world[i].careerPath
            /\ HeaderDrawn(i) =>
                  LET d == lay[i].draws
                      m == args[i]
                  IN /\ d[1].kind = "name" /\ d[1].y = TopMargin
                     /\ Cardinality(HeaderRules(i)) = 1
                     /\ IF m.careerPath.fetched
                        THEN /\ Subtitles(i) = {2}
                             /\ d[2].y = TopMargin + 35 /\ d[2].page = 1
                             /\ d[2].text = <<m.careerPath.title>>
                             /\ \A k \in HeaderRules(i) : d[k].y = RuleOffset(m, 25)
                        ELSE /\ Subtitles(i) = {}
                             /\ \A k \in HeaderRules(i) : d[k].y = RuleOffset(m, 0))
    /\ [][\A i \in Inv :
            /\ (pc[i] = "await_path" /\ pc'[i] # "await_path"
                    /\ ~args'[i].careerPath.fetched) =>
                  /\ pc'[i] = "await_llm"
                  /\ responses'[i] = responses[i]
                  /\ args'[i] = args[i]
            /\ args'[i].careerPath # args[i].careerPath =>
                  pc[i] = "await_path" /\ args'[i].careerPath.fetched]_vars

(* the fetch failed and the document was still produced and returned *)
C30_Witness ==
    \E i \in Inv :
        /\ pc[i] = "done" /\ Len(responses[i]) = 1 /\ responses[i][1].success
        /\ Truthy(args[i].talent.selectedPath) /\ ~args[i].careerPath.fetched
        /\ HeaderDrawn(i) /\ Subtitles(i) = {}
        /\ Len(args[i].educationDetails) > 0

====
